---- MODULE Spec2Model ----
(***************************************************************************)
(* Model of the two forge adapters of PromptToIssuev2:                     *)
(*   src/mcp/github-mcp/github_mcp_server.py   (GitHub tools)              *)
(*   src/mcp/gitlab-mcp/gitlab_mcp_server.py   (GitLab tools and aliases)  *)
(*                                                                         *)
(* A tool invocation is a deterministic program over the sequence of       *)
(* responses the upstream API gives to its HTTP calls.  The state is the   *)
(* invocation (tool and arguments as supplied by the agent), the upstream  *)
(* responses, and the run: the call stack, the position in the handler,    *)
(* the HTTP requests issued so far and the value returned.                 *)
(*                                                                         *)
(* Strings the code only passes through (owner, repo, branch names) are    *)
(* TLA+ strings.  Strings the code transforms are sequences: base64 text   *)
(* and percent-encoded ids are sequences of one-character strings, bytes   *)
(* and decoded text are sequences of numbers (byte values, code points).   *)
(* json.dumps(x, indent=2) is a deterministic function of the dict x and   *)
(* of the order of its keys, so an envelope is modelled as the ordered     *)
(* sequence of its <<key, value>> pairs.                                   *)
(***************************************************************************)
EXTENDS Integers, Sequences, FiniteSets, TLC

VARIABLES given, responses, run

vars == <<given, responses, run>>

(***************************************************************************)
(* Bounds of the model.                                                    *)
(***************************************************************************)
\* longest page of issues the upstream stub returns
MaxIssues == 4
\* longest directory listing the upstream stub returns
MaxEntries == 3
\* longest page of repositories, projects, merge requests or owner matches
MaxPage == 2
\* how far below and above a truncation threshold the sample texts range
MaxOver == 6

(***************************************************************************)
(* Generic helpers.                                                        *)
(***************************************************************************)
SeqsUpTo(S, n) == UNION { [1..k -> S] : k \in 0..n }

Range(s) == { s[i] : i \in 1..Len(s) }

\* Python None (JSON null)
PyNone == "<None>"

\* an envelope is the ordered sequence of the <<key, value>> pairs of a dict
Keys(env) == [i \in 1..Len(env) |-> env[i][1]]

HasKey(env, k) == \E i \in 1..Len(env) : env[i][1] = k

Get(env, k) == env[CHOOSE i \in 1..Len(env) : env[i][1] = k][2]

(***************************************************************************)
(* base64.b64decode(s): binascii.a2b_base64 in its default, non-strict     *)
(* mode.  Characters outside the alphabet are skipped, a completed pad     *)
(* sequence ends the input, and a dangling quad is an error.               *)
(***************************************************************************)
B64Alphabet ==
  << "A","B","C","D","E","F","G","H","I","J","K","L","M","N","O","P",
     "Q","R","S","T","U","V","W","X","Y","Z","a","b","c","d","e","f",
     "g","h","i","j","k","l","m","n","o","p","q","r","s","t","u","v",
     "w","x","y","z","0","1","2","3","4","5","6","7","8","9","+","/" >>

IsB64(c) == \E i \in 1..64 : B64Alphabet[i] = c

B64Val(c) == (CHOOSE i \in 1..64 : B64Alphabet[i] = c) - 1

RECURSIVE a2b_base64(_, _, _, _, _, _)
a2b_base64(s, i, quad_pos, pads, leftchar, bin) ==
  IF i > Len(s)
  THEN IF quad_pos # 0
       THEN [ok |-> FALSE, bytes |-> << >>]
       ELSE [ok |-> TRUE, bytes |-> bin]
  ELSE LET c == s[i] IN
       IF c = "="
       THEN IF quad_pos >= 2 /\ quad_pos + pads + 1 >= 4
            THEN [ok |-> TRUE, bytes |-> bin]
            ELSE a2b_base64(s, i + 1, quad_pos,
                            IF quad_pos >= 2 THEN pads + 1 ELSE pads,
                            leftchar, bin)
       ELSE IF ~IsB64(c)
       THEN a2b_base64(s, i + 1, quad_pos, pads, leftchar, bin)
       ELSE LET v == B64Val(c) IN
            CASE quad_pos = 0 ->
                   a2b_base64(s, i + 1, 1, 0, v, bin)
              [] quad_pos = 1 ->
                   a2b_base64(s, i + 1, 2, 0, v % 16,
                              Append(bin, leftchar * 4 + v \div 16))
              [] quad_pos = 2 ->
                   a2b_base64(s, i + 1, 3, 0, v % 4,
                              Append(bin, leftchar * 16 + v \div 4))
              [] OTHER ->
                   a2b_base64(s, i + 1, 0, 0, 0,
                              Append(bin, leftchar * 64 + v))

b64decode(s) == a2b_base64(s, 1, 0, 0, 0, << >>)

(***************************************************************************)
(* bytes.decode('utf-8'), strict: the code points of a well-formed byte    *)
(* sequence, or UnicodeDecodeError (ok = FALSE).                           *)
(***************************************************************************)
IsCont(b) == b >= 128 /\ b <= 191

RECURSIVE utf8_decode_from(_, _, _)
utf8_decode_from(b, i, text) ==
  IF i > Len(b) THEN [ok |-> TRUE, text |-> text]
  ELSE LET c == b[i]
           n == Len(b)
           bad == [ok |-> FALSE, text |-> << >>]
       IN
       CASE c < 128 -> utf8_decode_from(b, i + 1, Append(text, c))
         [] c >= 194 /\ c <= 223 ->
              IF i + 1 <= n /\ IsCont(b[i + 1])
              THEN utf8_decode_from(b, i + 2,
                     Append(text, (c - 192) * 64 + (b[i + 1] - 128)))
              ELSE bad
         [] c >= 224 /\ c <= 239 ->
              IF /\ i + 2 <= n
                 /\ IsCont(b[i + 1])
                 /\ IsCont(b[i + 2])
                 /\ (c = 224 => b[i + 1] >= 160)
                 /\ (c = 237 => b[i + 1] <= 159)
              THEN utf8_decode_from(b, i + 3,
                     Append(text, (c - 224) * 4096 + (b[i + 1] - 128) * 64
                                   + (b[i + 2] - 128)))
              ELSE bad
         [] c >= 240 /\ c <= 244 ->
              IF /\ i + 3 <= n
                 /\ IsCont(b[i + 1])
                 /\ IsCont(b[i + 2])
                 /\ IsCont(b[i + 3])
                 /\ (c = 240 => b[i + 1] >= 144)
                 /\ (c = 244 => b[i + 1] <= 143)
              THEN utf8_decode_from(b, i + 4,
                     Append(text, (c - 240) * 262144 + (b[i + 1] - 128) * 4096
                                   + (b[i + 2] - 128) * 64 + (b[i + 3] - 128)))
              ELSE bad
         [] OTHER -> bad

\* faulty variant, for comparison: decode(errors="replace"), which never fails
utf8_decode_replacing(b) ==
  [ok |-> TRUE, text |-> [i \in 1..Len(b) |-> IF b[i] < 128 THEN b[i] ELSE 65533]]

utf8_decode(b) == utf8_decode_from(b, 1, << >>)

(***************************************************************************)
(* str(n) for n >= 0, as code points.                                      *)
(***************************************************************************)
RECURSIVE Digits(_)
Digits(n) == IF n < 10 THEN << 48 + n >>
             ELSE Append(Digits(n \div 10), 48 + (n % 10))

(***************************************************************************)
(* File content is cut at max_size characters and a marker naming both     *)
(* lengths is appended.                                                    *)
(***************************************************************************)
max_size == 8000

TruncationMarker(shown, total) ==
  << 10, 10, 46, 46, 46, 32, 40, 102, 105, 108, 101, 32, 116, 114, 117, 110,
     99, 97, 116, 101, 100, 44, 32, 115, 104, 111, 119, 105, 110, 103, 32,
     102, 105, 114, 115, 116, 32 >>
  \o Digits(shown)
  \o << 32, 99, 104, 97, 114, 97, 99, 116, 101, 114, 115, 32, 111, 102, 32 >>
  \o Digits(total)
  \o << 32, 116, 111, 116, 97, 108, 41 >>

TruncateContent(content) ==
  IF Len(content) > max_size
  THEN SubSeq(content, 1, max_size) \o TruncationMarker(max_size, Len(content))
  ELSE content

(***************************************************************************)
(* urllib.parse.quote(s, safe=''): unreserved characters are kept, every   *)
(* other character is percent-encoded.  The table covers the reserved      *)
(* characters the modelled ids use.                                        *)
(***************************************************************************)
Unreserved ==
  { B64Alphabet[i] : i \in 1..62 } \cup { "_", ".", "-", "~" }

PercentEncoded(c) ==
  CASE c = "/" -> << "%", "2", "F" >>
    [] c = " " -> << "%", "2", "0" >>
    [] c = "+" -> << "%", "2", "B" >>
    [] OTHER   -> << "%", "?", "?" >>

RECURSIVE quote(_)
quote(s) ==
  IF s = << >> THEN << >>
  ELSE (IF Head(s) \in Unreserved THEN << Head(s) >> ELSE PercentEncoded(Head(s)))
       \o quote(Tail(s))

(***************************************************************************)
(* The HTTP primitive.  A response either fails in transport (net = FALSE, *)
(* requests raises a RequestException) or carries a status and a JSON      *)
(* body.  response.raise_for_status() raises HTTPError for 4xx and 5xx.    *)
(***************************************************************************)
NetFail == [net |-> FALSE, status |-> 0, body |-> [shape |-> "none"]]

Failed(status) == [net |-> TRUE, status |-> status, body |-> [shape |-> "none"]]

Ok(body) == [net |-> TRUE, status |-> 200, body |-> body]

RaisesForStatus(r) == r.status >= 400 /\ r.status < 600

\* str(e) of the RequestException a response gives rise to
ErrorText(r, url) ==
  IF ~r.net THEN << "ConnectionError", url >>
  ELSE << "HTTPError", r.status, url >>

\* a request names the endpoint it addresses, so that the stub can answer it
GetRequest(endpoint, url, params) ==
  [endpoint |-> endpoint, method |-> "GET", url |-> url, params |-> params]

PostRequest(endpoint, url, data) ==
  [endpoint |-> endpoint, method |-> "POST", url |-> url, params |-> data]

(***************************************************************************)
(* The run of one tool invocation.                                         *)
(***************************************************************************)
Top(s) == s.stack[Len(s.stack)]

\* how many requests the run has sent to an endpoint
Sent(s, endpoint) ==
  Cardinality({ i \in 1..Len(s.http) : s.http[i].endpoint = endpoint })

\* the response the upstream gives to the next request to an endpoint: the
\* stub answers each endpoint from its own script and repeats its last answer
NextResponse(s, rs, endpoint) ==
  LET script == rs[endpoint]
      k == Sent(s, endpoint) + 1
  IN script[IF k <= Len(script) THEN k ELSE Len(script)]

Send(s, req) == [s EXCEPT !.http = Append(@, req)]

\* json.dumps(envelope, indent=2)
ReturnJson(s, env) ==
  [s EXCEPT !.pc = "return", !.out = [kind |-> "json", val |-> env]]

\* a bare (non-JSON) string
ReturnStr(s, text) ==
  [s EXCEPT !.pc = "return", !.out = [kind |-> "str", val |-> text]]

\* an exception no handler of the tool catches
Raise(s, exc) ==
  [s EXCEPT !.pc = "return", !.out = [kind |-> "fault", val |-> << exc >>]]

Call(s, fn, a, pc) ==
  [s EXCEPT !.stack = Append(@, [fn |-> fn, a |-> a]), !.pc = pc]

(***************************************************************************)
(* GitHub get_file.                                                        *)
(***************************************************************************)
GitHubRepository(a) == << a.owner, "/", a.repo >>

\* faulty variant, for comparison: the not-found envelope lacks the suggestion
GitHubFileNotFoundBare(a) ==
  << << "repository", << a.owner, "/", a.repo >> >>,
     << "file_path", a.file_path >>,
     << "branch", a.branch >>,
     << "error", << "File not found", a.file_path, << a.owner, "/", a.repo >>, a.branch >> >> >>

GitHubFileNotFound(a) ==
  << << "repository", GitHubRepository(a) >>,
     << "file_path", a.file_path >>,
     << "branch", a.branch >>,
     << "error", << "File not found", a.file_path, GitHubRepository(a), a.branch >> >>,
     << "suggestion", "list_repository_contents" >> >>

GitHubNotAFile(a, body) ==
  << << "repository", GitHubRepository(a) >>,
     << "file_path", a.file_path >>,
     << "branch", a.branch >>,
     << "error", << "is not a file", a.file_path,
                    IF "type" \in DOMAIN body THEN body.type ELSE "unknown" >> >>,
     << "suggestion", "list_repository_contents" >> >>

GitHubBinaryFile(a, body) ==
  << << "repository", GitHubRepository(a) >>,
     << "file_path", a.file_path >>,
     << "branch", a.branch >>,
     << "error", << "File appears to be binary" >> >>,
     << "file_info",
        << << "size", body.size >>,
           << "encoding",
              IF "encoding" \in DOMAIN body THEN body.encoding ELSE "unknown" >> >> >> >>

GitHubFileContent(a, body, content) ==
  << << "repository", GitHubRepository(a) >>,
     << "file_path", a.file_path >>,
     << "branch", a.branch >>,
     << "size", body.size >>,
     << "encoding", IF "encoding" \in DOMAIN body THEN body.encoding ELSE "base64" >>,
     << "content", content >>,
     << "download_url",
        IF "download_url" \in DOMAIN body THEN body.download_url ELSE PyNone >>,
     << "last_modified", IF "sha" \in DOMAIN body THEN body.sha ELSE PyNone >> >>

\* faulty variant, for comparison: the error envelope names the branch first asked for
GitHubFileErrorOnMain(a, text) ==
  << << "repository", << a.owner, "/", a.repo >> >>,
     << "file_path", a.file_path >>,
     << "branch", "main" >>,
     << "error", << "Error fetching file", text >> >> >>

GitHubFileError(a, text) ==
  << << "repository", GitHubRepository(a) >>,
     << "file_path", a.file_path >>,
     << "branch", a.branch >>,
     << "error", << "Error fetching file", text >> >> >>

GitHubContentsUrl(a) == << "repos", a.owner, a.repo, "contents", a.file_path >>

GitHubRepoUrl(a) == << "repos", a.owner, a.repo >>

\* faulty variant, for comparison: the declared default branch is ignored
DeclaredDefaultBranchIgnored(body) == "master"

\* faulty variant, for comparison: a repository that declares none is taken to use "main"
DeclaredDefaultBranchOrMain(body) ==
  IF "default_branch" \in DOMAIN body THEN body.default_branch ELSE "main"

\* the default branch a 200 metadata response declares
DeclaredDefaultBranch(body) ==
  IF "default_branch" \in DOMAIN body THEN body.default_branch ELSE "master"

\* faulty variant, for comparison: a 404 on any branch starts the fallback
GitHubFallbackGuardAnyBranch(branch) == TRUE

\* the guard of the fallback: only a request for "main" looks the default up
GitHubFallbackGuard(branch) == branch = "main"

\* faulty variant, for comparison: the retry is made whatever the default branch is
GitHubRetryGuardAlways(default_branch) == TRUE

\* the guard of the retry: only a default branch other than "main" is retried
GitHubRetryGuard(default_branch) == default_branch # "main"

\* lines 268-314: the content response is not a 404
GitHubFileBody(s, a, r, url) ==
  IF RaisesForStatus(r) THEN ReturnJson(s, GitHubFileError(a, ErrorText(r, url)))
  ELSE IF r.body.shape # "dict" THEN Raise(s, "AttributeError")
  ELSE IF ~("type" \in DOMAIN r.body /\ r.body.type = "file")
       THEN ReturnJson(s, GitHubNotAFile(a, r.body))
  ELSE LET raw == b64decode(r.body.content) IN
       IF ~raw.ok THEN Raise(s, "binascii.Error")
       ELSE LET dec == utf8_decode(raw.bytes) IN
            IF ~dec.ok THEN ReturnJson(s, GitHubBinaryFile(a, r.body))
            ELSE ReturnJson(s, GitHubFileContent(a, r.body, TruncateContent(dec.text)))

\* lines 241-247, 268-322: GET the content; a 404 goes on to the fallback
GitHubGetFileContent(s, rs) ==
  LET a   == Top(s).a
      url == GitHubContentsUrl(a)
      r   == NextResponse(s, rs, "content")
      s1  == Send(s, GetRequest("content", url, << << "ref", a.branch >> >>))
  IN IF ~r.net THEN ReturnJson(s1, GitHubFileError(a, ErrorText(r, url)))
     ELSE IF r.status = 404
          THEN IF GitHubFallbackGuard(a.branch)
               THEN [s1 EXCEPT !.pc = "metadata"]
               ELSE ReturnJson(s1, GitHubFileNotFound(a))
     ELSE GitHubFileBody(s1, a, r, url)

\* faulty variant, for comparison: a failure of the metadata fetch is reported, not swallowed
GitHubGetFileMetadataUnguarded(s, rs) ==
  LET a  == Top(s).a
      r  == NextResponse(s, rs, "metadata")
      s1 == Send(s, GetRequest("metadata", GitHubRepoUrl(a), << >>))
  IN IF ~r.net \/ RaisesForStatus(r)
     THEN ReturnJson(s1, GitHubFileError(a, ErrorText(r, GitHubRepoUrl(a))))
     ELSE IF r.status = 200 /\ GitHubRetryGuard(DeclaredDefaultBranch(r.body))
     THEN Call(s1, "github.get_file",
               [a EXCEPT !.branch = DeclaredDefaultBranch(r.body)], "content")
     ELSE ReturnJson(s1, GitHubFileNotFound(a))

\* lines 249-266: look the default branch up, retry on it or report not found
GitHubGetFileMetadata(s, rs) ==
  LET a  == Top(s).a
      r  == NextResponse(s, rs, "metadata")
      s1 == Send(s, GetRequest("metadata", GitHubRepoUrl(a), << >>))
  IN IF r.net /\ r.status = 200 /\ GitHubRetryGuard(DeclaredDefaultBranch(r.body))
     THEN Call(s1, "github.get_file",
               [a EXCEPT !.branch = DeclaredDefaultBranch(r.body)], "content")
     ELSE ReturnJson(s1, GitHubFileNotFound(a))

(***************************************************************************)
(* GitLab gitlab_get_file.                                                 *)
(***************************************************************************)
GitLabFileNotFound(a) ==
  << << "project", a.project_id >>,
     << "file_path", a.file_path >>,
     << "branch", a.branch >>,
     << "error", << "File not found", a.file_path, a.project_id, a.branch >> >>,
     << "suggestion", "list_repository_tree" >> >>

GitLabBinaryFile(a, body) ==
  << << "project", a.project_id >>,
     << "file_path", a.file_path >>,
     << "branch", a.branch >>,
     << "error", << "File appears to be binary" >> >>,
     << "file_info",
        << << "size", body.size >>,
           << "encoding",
              IF "encoding" \in DOMAIN body THEN body.encoding ELSE "base64" >> >> >> >>

GitLabFileContent(a, body, content) ==
  << << "project", a.project_id >>,
     << "file_path", a.file_path >>,
     << "branch", a.branch >>,
     << "size", body.size >>,
     << "encoding", IF "encoding" \in DOMAIN body THEN body.encoding ELSE "base64" >>,
     << "content", content >>,
     << "last_commit_id",
        IF "last_commit_id" \in DOMAIN body THEN body.last_commit_id ELSE PyNone >> >>

GitLabFileError(a, text) ==
  << << "project", a.project_id >>,
     << "file_path", a.file_path >>,
     << "branch", a.branch >>,
     << "error", << "Error fetching file", text >> >> >>

GitLabFileUrl(a) ==
  << "projects", quote(a.project_id), "repository", "files", quote(a.file_path) >>

GitLabProjectUrl(a) == << "projects", quote(a.project_id) >>

GitLabFallbackGuard(branch) == branch = "main"

\* faulty variant, for comparison: the retry is made whatever the default branch is
GitLabRetryGuardAlways(default_branch) == TRUE

GitLabRetryGuard(default_branch) == default_branch # "main"

\* lines 314-349: the content response is not a 404
GitLabFileBody(s, a, r, url) ==
  IF RaisesForStatus(r) THEN ReturnJson(s, GitLabFileError(a, ErrorText(r, url)))
  ELSE IF r.body.shape # "dict" THEN Raise(s, "TypeError")
  ELSE LET raw == b64decode(r.body.content) IN
       IF ~raw.ok THEN Raise(s, "binascii.Error")
       ELSE LET dec == utf8_decode(raw.bytes) IN
            IF ~dec.ok THEN ReturnJson(s, GitLabBinaryFile(a, r.body))
            ELSE ReturnJson(s, GitLabFileContent(a, r.body, TruncateContent(dec.text)))

\* lines 283-293, 314-357: GET the file; a 404 goes on to the fallback
GitLabGetFileContent(s, rs) ==
  LET a   == Top(s).a
      url == GitLabFileUrl(a)
      r   == NextResponse(s, rs, "content")
      s1  == Send(s, GetRequest("content", url, << << "ref", a.branch >> >>))
  IN IF ~r.net THEN ReturnJson(s1, GitLabFileError(a, ErrorText(r, url)))
     ELSE IF r.status = 404
          THEN IF GitLabFallbackGuard(a.branch)
               THEN [s1 EXCEPT !.pc = "metadata"]
               ELSE ReturnJson(s1, GitLabFileNotFound(a))
     ELSE GitLabFileBody(s1, a, r, url)

\* lines 295-312: look the default branch up, retry on it or report not found
GitLabGetFileMetadata(s, rs) ==
  LET a  == Top(s).a
      r  == NextResponse(s, rs, "metadata")
      s1 == Send(s, GetRequest("metadata", GitLabProjectUrl(a), << >>))
  IN IF r.net /\ r.status = 200 /\ GitLabRetryGuard(DeclaredDefaultBranch(r.body))
     THEN Call(s1, "gitlab.gitlab_get_file",
               [a EXCEPT !.branch = DeclaredDefaultBranch(r.body)], "content")
     ELSE ReturnJson(s1, GitLabFileNotFound(a))

(***************************************************************************)
(* Issue bodies and descriptions are cut at 500 characters in listings.    *)
(***************************************************************************)
BodyLimit == 500

\* faulty variant, for comparison: a text of exactly 500 characters is cut too
TruncateBodyFromLimit(x, key) ==
  LET text == IF key \in DOMAIN x THEN x[key] ELSE << >>
  IN IF text # << >> /\ Len(text) >= BodyLimit
     THEN SubSeq(text, 1, BodyLimit) \o << 46, 46, 46 >>
     ELSE text

\* x.get(key, "")[:500] + "..." if x.get(key, "") and len(x.get(key, "")) > 500
\* else x.get(key, "")
TruncateBody(x, key) ==
  LET text == IF key \in DOMAIN x THEN x[key] ELSE << >>
  IN IF text # << >> /\ Len(text) > BodyLimit
     THEN SubSeq(text, 1, BodyLimit) \o << 46, 46, 46 >>
     ELSE text

\* [e[key] for e in x.get(field, [])]
Pluck(x, field, key) ==
  IF field \in DOMAIN x THEN [i \in 1..Len(x[field]) |-> x[field][i][key]] ELSE << >>

GetOr(x, key, default) == IF key \in DOMAIN x THEN x[key] ELSE default

(***************************************************************************)
(* GitHub list_issues.                                                     *)
(***************************************************************************)
GitHubIssueSummary(issue) ==
  << << "number", issue.number >>,
     << "title", issue.title >>,
     << "state", issue.state >>,
     << "user", issue.user.login >>,
     << "created_at", issue.created_at >>,
     << "updated_at", issue.updated_at >>,
     << "labels", Pluck(issue, "labels", "name") >>,
     << "assignees", Pluck(issue, "assignees", "login") >>,
     << "comments", issue.comments >>,
     << "body", TruncateBody(issue, "body") >> >>

\* faulty variant, for comparison: pull requests are listed with the issues
GitHubSkipsNothing(issue) == FALSE

\* line 128: pull requests appear in the issues endpoint and are skipped
GitHubSkipsItem(issue) == "pull_request" \in DOMAIN issue

\* lines 124-142: the loop over the page
RECURSIVE GitHubIssueSummaries(_)
GitHubIssueSummaries(issues) ==
  IF issues = << >> THEN << >>
  ELSE IF GitHubSkipsItem(Head(issues))
       THEN GitHubIssueSummaries(Tail(issues))
       ELSE << GitHubIssueSummary(Head(issues)) >> \o GitHubIssueSummaries(Tail(issues))

PageSize(per_page) == IF per_page < 100 THEN per_page ELSE 100

\* lines 112-147
GitHubListIssues(s, rs) ==
  LET a   == Top(s).a
      url == << "repos", a.owner, a.repo, "issues" >>
      r   == NextResponse(s, rs, "list")
      s1  == Send(s, GetRequest("list", url,
                                << << "state", a.state >>,
                                   << "per_page", PageSize(a.per_page) >>,
                                   << "sort", "updated" >> >>))
  IN IF ~r.net \/ RaisesForStatus(r)
     THEN ReturnStr(s1, << "Error fetching issues", ErrorText(r, url) >>)
     ELSE ReturnJson(s1, GitHubIssueSummaries(r.body.items))

(***************************************************************************)
(* GitLab gitlab_list_issues, gitlab_create_issue, gitlab_get_issue.       *)
(***************************************************************************)
GitLabIssueSummary(issue) ==
  << << "iid", issue.iid >>,
     << "id", issue.id >>,
     << "title", issue.title >>,
     << "state", issue.state >>,
     << "author", issue.author.username >>,
     << "created_at", issue.created_at >>,
     << "updated_at", issue.updated_at >>,
     << "labels", GetOr(issue, "labels", << >>) >>,
     << "assignees", Pluck(issue, "assignees", "username") >>,
     << "user_notes_count", issue.user_notes_count >>,
     << "web_url", issue.web_url >>,
     << "description", TruncateBody(issue, "description") >> >>

\* lines 165-181: the loop over the page, every item is projected
GitLabIssueSummaries(issues) ==
  [i \in 1..Len(issues) |-> GitLabIssueSummary(issues[i])]

\* lines 149-186
GitLabListIssues(s, rs) ==
  LET a   == Top(s).a
      url == << "projects", quote(a.project_id), "issues" >>
      r   == NextResponse(s, rs, "list")
      s1  == Send(s, GetRequest("list", url,
                                << << "state", a.state >>,
                                   << "per_page", PageSize(a.per_page) >>,
                                   << "order_by", "updated_at" >>,
                                   << "sort", "desc" >> >>))
  IN IF ~r.net \/ RaisesForStatus(r)
     THEN ReturnStr(s1, << "Error fetching issues", ErrorText(r, url) >>)
     ELSE ReturnJson(s1, GitLabIssueSummaries(r.body.items))

\* an Optional[List]: None, or a list
NoneList == [is_none |-> TRUE, items |-> << >>]

ListOf(items) == [is_none |-> FALSE, items |-> items]

\* "if labels:" holds of a list that is neither None nor empty
Truthy(l) == ~l.is_none /\ l.items # << >>

\* ",".join(labels), the separators kept as elements
RECURSIVE JoinLabels(_)
JoinLabels(labels) ==
  IF Len(labels) <= 1 THEN labels
  ELSE << Head(labels), "," >> \o JoinLabels(Tail(labels))

\* lines 204-212: the JSON body of the POST
GitLabIssueData(a) ==
  << << "title", a.title >>, << "description", a.description >> >>
  \o (IF Truthy(a.labels)
      THEN << << "labels", JoinLabels(a.labels.items) >> >> ELSE << >>)
  \o (IF Truthy(a.assignee_ids)
      THEN << << "assignee_ids", a.assignee_ids.items >> >> ELSE << >>)

\* lines 200-232
GitLabCreateIssue(s, rs) ==
  LET a   == Top(s).a
      url == << "projects", quote(a.project_id), "issues" >>
      r   == NextResponse(s, rs, "create")
      s1  == Send(s, PostRequest("create", url, GitLabIssueData(a)))
      issue == r.body
  IN IF ~r.net \/ RaisesForStatus(r)
     THEN ReturnStr(s1, << "Error creating issue", ErrorText(r, url) >>)
     ELSE ReturnJson(s1, << << "iid", issue.iid >>,
                            << "id", issue.id >>,
                            << "title", issue.title >>,
                            << "web_url", issue.web_url >>,
                            << "state", issue.state >>,
                            << "created_at", issue.created_at >> >>)

\* lines 243-271
GitLabGetIssue(s, rs) ==
  LET a   == Top(s).a
      url == << "projects", quote(a.project_id), "issues", a.issue_iid >>
      r   == NextResponse(s, rs, "issue")
      s1  == Send(s, GetRequest("issue", url, << >>))
      issue == r.body
  IN IF ~r.net \/ RaisesForStatus(r)
     THEN ReturnStr(s1, << "Error fetching issue", ErrorText(r, url) >>)
     ELSE ReturnJson(s1, << << "iid", issue.iid >>,
                            << "id", issue.id >>,
                            << "title", issue.title >>,
                            << "state", issue.state >>,
                            << "author", issue.author.username >>,
                            << "created_at", issue.created_at >>,
                            << "updated_at", issue.updated_at >>,
                            << "labels", GetOr(issue, "labels", << >>) >>,
                            << "assignees", Pluck(issue, "assignees", "username") >>,
                            << "user_notes_count", issue.user_notes_count >>,
                            << "description", GetOr(issue, "description", << >>) >>,
                            << "web_url", issue.web_url >> >>)

(***************************************************************************)
(* The directory sort: list.sort(key=lambda x: (x["type"] != dir,          *)
(* x["name"].lower())).  A key is a pair of a boolean and a string; pairs  *)
(* compare by the boolean first (False before True), strings by code       *)
(* point.  list.sort is stable: entries whose keys are equal keep their    *)
(* order.                                                                  *)
(***************************************************************************)
\* str.lower() of an ASCII name
lower(name) ==
  [i \in 1..Len(name) |-> IF name[i] >= 65 /\ name[i] <= 90 THEN name[i] + 32 ELSE name[i]]

RECURSIVE StrLess(_, _)
StrLess(x, y) ==
  IF y = << >> THEN FALSE
  ELSE IF x = << >> THEN TRUE
  ELSE IF Head(x) # Head(y) THEN Head(x) < Head(y)
  ELSE StrLess(Tail(x), Tail(y))

KeyLess(k1, k2) ==
  IF k1[1] # k2[1] THEN k2[1] ELSE StrLess(k1[2], k2[2])

\* the index i goes behind every index whose key is not greater than its own
InsertStable(order, i, keys) ==
  LET p == Cardinality({ j \in 1..Len(order) : ~KeyLess(keys[i], keys[order[j]]) })
  IN SubSeq(order, 1, p) \o << i >> \o SubSeq(order, p + 1, Len(order))

RECURSIVE SortIndices(_, _)
SortIndices(keys, n) ==
  IF n = 0 THEN << >> ELSE InsertStable(SortIndices(keys, n - 1), n, keys)

\* the items in the stable order of their keys
SortedByKeys(items, keys) ==
  LET order == SortIndices(keys, Len(items))
  IN [i \in 1..Len(items) |-> items[order[i]]]

(***************************************************************************)
(* GitHub list_repository_contents.                                        *)
(***************************************************************************)
PathOrRoot(path) == IF path = "" THEN "/" ELSE path

\* lines 369-374
GitHubDirectoryEntry(item) ==
  << << "name", item.name >>,
     << "type", item.type >>,
     << "size", IF item.type = "file" THEN GetOr(item, "size", 0) ELSE PyNone >>,
     << "path", item.path >> >>

\* faulty variant, for comparison: the entries are sorted by name alone
GitHubSortKeyByName(entry) == << FALSE, lower(Get(entry, "name")) >>

\* line 377
GitHubSortKey(entry) == << Get(entry, "type") # "dir", lower(Get(entry, "name")) >>

GitHubSortEntries(entries) ==
  SortedByKeys(entries, [i \in 1..Len(entries) |-> GitHubSortKey(entries[i])])

\* lines 335-395
GitHubListRepositoryContents(s, rs) ==
  LET a   == Top(s).a
      url == << "repos", a.owner, a.repo, "contents", a.path >>
      r   == NextResponse(s, rs, "tree")
      s1  == Send(s, GetRequest("tree", url, << << "ref", a.branch >> >>))
      head == << << "repository", GitHubRepository(a) >>,
                 << "path", PathOrRoot(a.path) >>,
                 << "branch", a.branch >> >>
  IN IF ~r.net
     THEN ReturnJson(s1, head \o << << "error", << "Error fetching contents",
                                                   ErrorText(r, url) >> >> >>)
     ELSE IF r.status = 404
     THEN ReturnJson(s1, head \o << << "error", << "Path not found", a.path,
                                                   GitHubRepository(a), a.branch >> >> >>)
     ELSE IF RaisesForStatus(r)
     THEN ReturnJson(s1, head \o << << "error", << "Error fetching contents",
                                                   ErrorText(r, url) >> >> >>)
     ELSE IF r.body.shape = "dict"
     THEN ReturnJson(s1, head \o << << "type", "file" >>,
                                    << "file_info", << << "name", r.body.name >>,
                                                       << "size", r.body.size >>,
                                                       << "type", r.body.type >> >> >> >>)
     ELSE LET items == [i \in 1..Len(r.body.items) |->
                          GitHubDirectoryEntry(r.body.items[i])]
          IN ReturnJson(s1, head \o << << "total_items", Len(items) >>,
                                       << "contents", GitHubSortEntries(items) >> >>)

(***************************************************************************)
(* GitLab list_repository_tree.                                            *)
(***************************************************************************)
\* lines 393-398
GitLabTreeEntry(item) ==
  << << "name", item.name >>,
     << "type", item.type >>,
     << "path", item.path >>,
     << "mode", item.mode >> >>

\* line 401
GitLabSortKey(entry) == << Get(entry, "type") # "tree", lower(Get(entry, "name")) >>

GitLabSortEntries(entries) ==
  SortedByKeys(entries, [i \in 1..Len(entries) |-> GitLabSortKey(entries[i])])

\* lines 369-419
GitLabListRepositoryTree(s, rs) ==
  LET a   == Top(s).a
      url == << "projects", quote(a.project_id), "repository", "tree" >>
      r   == NextResponse(s, rs, "tree")
      s1  == Send(s, GetRequest("tree", url,
                                << << "ref", a.branch >>, << "per_page", 100 >> >>
                                \o (IF a.path # "" THEN << << "path", a.path >> >>
                                    ELSE << >>)))
      head == << << "project", a.project_id >>,
                 << "path", PathOrRoot(a.path) >>,
                 << "branch", a.branch >> >>
  IN IF ~r.net
     THEN ReturnJson(s1, head \o << << "error", << "Error fetching tree",
                                                   ErrorText(r, url) >> >> >>)
     ELSE IF r.status = 404
     THEN ReturnJson(s1, head \o << << "error", << "Path not found", a.path,
                                                   a.project_id, a.branch >> >> >>)
     ELSE IF RaisesForStatus(r)
     THEN ReturnJson(s1, head \o << << "error", << "Error fetching tree",
                                                   ErrorText(r, url) >> >> >>)
     ELSE LET items == [i \in 1..Len(r.body.items) |-> GitLabTreeEntry(r.body.items[i])]
          IN ReturnJson(s1, head \o << << "total_items", Len(items) >>,
                                       << "contents", GitLabSortEntries(items) >> >>)

(***************************************************************************)
(* GitHub list_repositories, get_repository_info, search_repositories,     *)
(* create_issue, get_issue.                                                *)
(***************************************************************************)
\* faulty variant, for comparison: a failed listing is requested once more
GitHubListRepositoriesRetrying(s, rs) ==
  LET a   == Top(s).a
      url == << "users", a.owner, "repos" >>
      req == GetRequest("list", url, << << "per_page", PageSize(a.per_page) >>,
                                        << "sort", "updated" >> >>)
      r   == NextResponse(s, rs, "list")
      s1  == Send(s, req)
      r2  == NextResponse(s1, rs, "list")
      s2  == Send(s1, req)
  IN IF ~r.net \/ RaisesForStatus(r)
     THEN IF ~r2.net \/ RaisesForStatus(r2)
          THEN ReturnStr(s2, << "Error fetching repositories", ErrorText(r2, url) >>)
          ELSE ReturnJson(s2, << >>)
     ELSE ReturnJson(s1, << >>)

\* lines 35-60
GitHubListRepositories(s, rs) ==
  LET a   == Top(s).a
      url == << "users", a.owner, "repos" >>
      r   == NextResponse(s, rs, "list")
      s1  == Send(s, GetRequest("list", url,
                                << << "per_page", PageSize(a.per_page) >>,
                                   << "sort", "updated" >> >>))
      Summary(repo) ==
        << << "name", repo.name >>,
           << "full_name", repo.full_name >>,
           << "description", GetOr(repo, "description", "") >>,
           << "private", repo.private >>,
           << "stars", repo.stargazers_count >>,
           << "forks", repo.forks_count >>,
           << "language", GetOr(repo, "language", "") >>,
           << "updated_at", repo.updated_at >> >>
  IN IF ~r.net \/ RaisesForStatus(r)
     THEN ReturnStr(s1, << "Error fetching repositories", ErrorText(r, url) >>)
     ELSE ReturnJson(s1, [i \in 1..Len(r.body.items) |-> Summary(r.body.items[i])])

\* lines 71-99
GitHubGetRepositoryInfo(s, rs) ==
  LET a   == Top(s).a
      url == << "repos", a.owner, a.repo >>
      r   == NextResponse(s, rs, "repository")
      s1  == Send(s, GetRequest("repository", url, << >>))
      repo_data == r.body
  IN IF ~r.net \/ RaisesForStatus(r)
     THEN ReturnStr(s1, << "Error fetching repository info", ErrorText(r, url) >>)
     ELSE ReturnJson(s1,
            << << "name", repo_data.name >>,
               << "full_name", repo_data.full_name >>,
               << "description", GetOr(repo_data, "description", "") >>,
               << "private", repo_data.private >>,
               << "stars", repo_data.stargazers_count >>,
               << "forks", repo_data.forks_count >>,
               << "language", GetOr(repo_data, "language", "") >>,
               << "created_at", repo_data.created_at >>,
               << "updated_at", repo_data.updated_at >>,
               << "default_branch", repo_data.default_branch >>,
               << "topics", GetOr(repo_data, "topics", << >>) >>,
               << "license", IF "license" \in DOMAIN repo_data
                             THEN GetOr(repo_data.license, "name", "") ELSE "" >>,
               << "clone_url", repo_data.clone_url >>,
               << "ssh_url", repo_data.ssh_url >> >>)

\* lines 408-441
GitHubSearchRepositories(s, rs) ==
  LET a   == Top(s).a
      url == << "search", "repositories" >>
      r   == NextResponse(s, rs, "list")
      s1  == Send(s, GetRequest("list", url,
                                << << "q", a.query >>,
                                   << "sort", a.sort >>,
                                   << "order", a.order >>,
                                   << "per_page", PageSize(a.per_page) >> >>))
      Summary(repo) ==
        << << "name", repo.name >>,
           << "full_name", repo.full_name >>,
           << "description", GetOr(repo, "description", "") >>,
           << "stars", repo.stargazers_count >>,
           << "forks", repo.forks_count >>,
           << "language", GetOr(repo, "language", "") >>,
           << "updated_at", repo.updated_at >>,
           << "url", repo.html_url >> >>
  IN IF ~r.net \/ RaisesForStatus(r)
     THEN ReturnStr(s1, << "Error searching repositories", ErrorText(r, url) >>)
     ELSE ReturnJson(s1,
            << << "total_count", r.body.total_count >>,
               << "repositories",
                  [i \in 1..Len(r.body.items) |-> Summary(r.body.items[i])] >> >>)

\* lines 162-191
GitHubCreateIssue(s, rs) ==
  LET a   == Top(s).a
      url == << "repos", a.owner, a.repo, "issues" >>
      data == << << "title", a.title >>, << "body", a.body >> >>
              \o (IF Truthy(a.labels)
                  THEN << << "labels", a.labels.items >> >> ELSE << >>)
              \o (IF Truthy(a.assignees)
                  THEN << << "assignees", a.assignees.items >> >> ELSE << >>)
      r   == NextResponse(s, rs, "create")
      s1  == Send(s, PostRequest("create", url, data))
      issue == r.body
  IN IF ~r.net \/ RaisesForStatus(r)
     THEN ReturnStr(s1, << "Error creating issue", ErrorText(r, url) >>)
     ELSE ReturnJson(s1, << << "number", issue.number >>,
                            << "title", issue.title >>,
                            << "url", issue.html_url >>,
                            << "state", issue.state >>,
                            << "created_at", issue.created_at >> >>)

\* lines 203-228
GitHubGetIssue(s, rs) ==
  LET a   == Top(s).a
      url == << "repos", a.owner, a.repo, "issues", a.issue_number >>
      r   == NextResponse(s, rs, "issue")
      s1  == Send(s, GetRequest("issue", url, << >>))
      issue == r.body
  IN IF ~r.net \/ RaisesForStatus(r)
     THEN ReturnStr(s1, << "Error fetching issue", ErrorText(r, url) >>)
     ELSE ReturnJson(s1, << << "number", issue.number >>,
                            << "title", issue.title >>,
                            << "state", issue.state >>,
                            << "user", issue.user.login >>,
                            << "created_at", issue.created_at >>,
                            << "updated_at", issue.updated_at >>,
                            << "labels", Pluck(issue, "labels", "name") >>,
                            << "assignees", Pluck(issue, "assignees", "login") >>,
                            << "comments", issue.comments >>,
                            << "body", GetOr(issue, "body", << >>) >>,
                            << "url", issue.html_url >> >>)

(***************************************************************************)
(* GitLab list_projects, get_project_info, search_projects,                *)
(* list_merge_requests.                                                    *)
(***************************************************************************)
\* faulty variant, for comparison: the last match is used
LastMatch(matches) == matches[Len(matches)]

\* lines 57 and 61: users[0], groups[0]
FirstMatch(matches) == matches[1]

\* "if owner:" holds of a string that is neither None nor empty
OwnerGiven(owner) == owner # PyNone /\ owner # ""

\* lines 35-94: the owner is resolved to a user or else to a group, then the
\* projects of the first match, or all accessible projects, are listed
GitLabListProjects(s, rs) ==
  LET a  == Top(s).a
      u  == NextResponse(s, rs, "users")
      s1 == Send(s, GetRequest("users", << "users" >>, << << "username", a.owner >> >>))
      g  == NextResponse(s1, rs, "groups")
      s2 == Send(s1, GetRequest("groups", << "groups" >>, << << "search", a.owner >> >>))
      Summary(project) ==
        << << "id", project.id >>,
           << "name", project.name >>,
           << "path_with_namespace", project.path_with_namespace >>,
           << "description", GetOr(project, "description", "") >>,
           << "visibility", project.visibility >>,
           << "stars", project.star_count >>,
           << "forks", project.forks_count >>,
           << "default_branch", GetOr(project, "default_branch", "main") >>,
           << "last_activity_at", project.last_activity_at >>,
           << "web_url", project.web_url >> >>
      \* lines 68-94
      Listing(s0, url) ==
        LET r  == NextResponse(s0, rs, "list")
            s3 == Send(s0, GetRequest("list", url,
                                      << << "per_page", PageSize(a.per_page) >>,
                                         << "order_by", "last_activity_at" >>,
                                         << "sort", "desc" >> >>))
        IN IF ~r.net \/ RaisesForStatus(r)
           THEN ReturnStr(s3, << "Error fetching projects", ErrorText(r, url) >>)
           ELSE ReturnJson(s3, [i \in 1..Len(r.body.items) |-> Summary(r.body.items[i])])
  IN IF ~OwnerGiven(a.owner) THEN Listing(s, << "projects" >>)
     ELSE IF ~u.net \/ RaisesForStatus(u)
     THEN ReturnStr(s1, << "Error finding user/group", ErrorText(u, << "users" >>) >>)
     ELSE IF u.body.items # << >>
     THEN Listing(s1, << "users", FirstMatch(u.body.items).id, "projects" >>)
     ELSE IF ~g.net \/ RaisesForStatus(g)
     THEN ReturnStr(s2, << "Error finding user/group", ErrorText(g, << "groups" >>) >>)
     ELSE IF g.body.items = << >>
     THEN ReturnStr(s2, << "User or group not found", a.owner >>)
     ELSE Listing(s2, << "groups", FirstMatch(g.body.items).id, "projects" >>)

\* lines 106-137
GitLabGetProjectInfo(s, rs) ==
  LET a   == Top(s).a
      url == << "projects", quote(a.project_id) >>
      r   == NextResponse(s, rs, "project")
      s1  == Send(s, GetRequest("project", url, << >>))
      project == r.body
  IN IF ~r.net \/ RaisesForStatus(r)
     THEN ReturnStr(s1, << "Error fetching project info", ErrorText(r, url) >>)
     ELSE ReturnJson(s1,
            << << "id", project.id >>,
               << "name", project.name >>,
               << "path_with_namespace", project.path_with_namespace >>,
               << "description", GetOr(project, "description", "") >>,
               << "visibility", project.visibility >>,
               << "stars", project.star_count >>,
               << "forks", project.forks_count >>,
               << "default_branch", GetOr(project, "default_branch", "main") >>,
               << "created_at", project.created_at >>,
               << "last_activity_at", project.last_activity_at >>,
               << "topics", GetOr(project, "topics", << >>) >>,
               << "http_url_to_repo", project.http_url_to_repo >>,
               << "ssh_url_to_repo", project.ssh_url_to_repo >>,
               << "web_url", project.web_url >>,
               << "issues_enabled", project.issues_enabled >>,
               << "merge_requests_enabled", project.merge_requests_enabled >> >>)

\* lines 432-466
GitLabSearchProjects(s, rs) ==
  LET a   == Top(s).a
      url == << "projects" >>
      r   == NextResponse(s, rs, "list")
      s1  == Send(s, GetRequest("list", url,
                                << << "search", a.query >>,
                                   << "order_by", a.order_by >>,
                                   << "sort", a.sort >>,
                                   << "per_page", PageSize(a.per_page) >> >>))
      Summary(project) ==
        << << "id", project.id >>,
           << "name", project.name >>,
           << "path_with_namespace", project.path_with_namespace >>,
           << "description", GetOr(project, "description", "") >>,
           << "visibility", project.visibility >>,
           << "stars", project.star_count >>,
           << "forks", project.forks_count >>,
           << "last_activity_at", project.last_activity_at >>,
           << "web_url", project.web_url >> >>
      result == [i \in 1..Len(r.body.items) |-> Summary(r.body.items[i])]
  IN IF ~r.net \/ RaisesForStatus(r)
     THEN ReturnStr(s1, << "Error searching projects", ErrorText(r, url) >>)
     ELSE ReturnJson(s1, << << "total_results", Len(result) >>,
                            << "projects", result >> >>)

\* lines 497-512
GitLabMergeRequestSummary(mr) ==
  << << "iid", mr.iid >>,
     << "id", mr.id >>,
     << "title", mr.title >>,
     << "state", mr.state >>,
     << "author", mr.author.username >>,
     << "source_branch", mr.source_branch >>,
     << "target_branch", mr.target_branch >>,
     << "created_at", mr.created_at >>,
     << "updated_at", mr.updated_at >>,
     << "labels", GetOr(mr, "labels", << >>) >>,
     << "assignees", Pluck(mr, "assignees", "username") >>,
     << "user_notes_count", mr.user_notes_count >>,
     << "web_url", mr.web_url >>,
     << "description", TruncateBody(mr, "description") >> >>

\* lines 479-517
GitLabListMergeRequests(s, rs) ==
  LET a   == Top(s).a
      url == << "projects", quote(a.project_id), "merge_requests" >>
      r   == NextResponse(s, rs, "list")
      s1  == Send(s, GetRequest("list", url,
                                << << "state", a.state >>,
                                   << "per_page", PageSize(a.per_page) >>,
                                   << "order_by", "updated_at" >>,
                                   << "sort", "desc" >> >>))
  IN IF ~r.net \/ RaisesForStatus(r)
     THEN ReturnStr(s1, << "Error fetching merge requests", ErrorText(r, url) >>)
     ELSE ReturnJson(s1, [i \in 1..Len(r.body.items) |->
                            GitLabMergeRequestSummary(r.body.items[i])])

(***************************************************************************)
(* The tools: parameters in declaration order, defaults, first position.   *)
(***************************************************************************)
FileTools == { "github.get_file", "gitlab.gitlab_get_file" }

Aliases ==
  { "gitlab.list_issues", "gitlab.create_issue", "gitlab.get_issue", "gitlab.get_file" }

Params(fn) ==
  CASE fn = "github.get_file" -> << "owner", "repo", "file_path", "branch" >>
    [] fn = "github.list_issues" -> << "owner", "repo", "state", "per_page" >>
    [] fn = "github.list_repository_contents" -> << "owner", "repo", "path", "branch" >>
    [] fn = "github.list_repositories" -> << "owner", "per_page" >>
    [] fn = "github.get_repository_info" -> << "owner", "repo" >>
    [] fn = "github.create_issue" ->
         << "owner", "repo", "title", "body", "labels", "assignees" >>
    [] fn = "github.get_issue" -> << "owner", "repo", "issue_number" >>
    [] fn = "github.search_repositories" -> << "query", "sort", "order", "per_page" >>
    [] fn = "gitlab.list_projects" -> << "owner", "per_page" >>
    [] fn = "gitlab.get_project_info" -> << "project_id" >>
    [] fn = "gitlab.search_projects" -> << "query", "order_by", "sort", "per_page" >>
    [] fn = "gitlab.list_merge_requests" -> << "project_id", "state", "per_page" >>
    [] fn = "gitlab.gitlab_get_file" -> << "project_id", "file_path", "branch" >>
    [] fn = "gitlab.list_repository_tree" -> << "project_id", "path", "branch" >>
    [] fn = "gitlab.gitlab_list_issues" -> << "project_id", "state", "per_page" >>
    [] fn = "gitlab.gitlab_create_issue" ->
         << "project_id", "title", "description", "labels", "assignee_ids" >>
    [] fn = "gitlab.gitlab_get_issue" -> << "project_id", "issue_iid" >>
    [] fn = "gitlab.list_issues" -> << "project_id", "state", "per_page" >>
    [] fn = "gitlab.create_issue" ->
         << "project_id", "title", "description", "labels", "assignee_ids" >>
    [] fn = "gitlab.get_issue" -> << "project_id", "issue_iid" >>
    [] fn = "gitlab.get_file" -> << "project_id", "file_path", "branch" >>

Defaults(fn) ==
  CASE fn = "github.get_file" -> [branch |-> "main"]
    [] fn = "github.list_issues" -> [state |-> "open", per_page |-> 30]
    [] fn = "github.list_repository_contents" -> [path |-> "", branch |-> "main"]
    [] fn = "github.list_repositories" -> [per_page |-> 30]
    [] fn = "github.get_repository_info" -> << >>
    [] fn = "github.create_issue" ->
         [body |-> << >>, labels |-> NoneList, assignees |-> NoneList]
    [] fn = "github.get_issue" -> << >>
    [] fn = "github.search_repositories" ->
         [sort |-> "stars", order |-> "desc", per_page |-> 30]
    [] fn = "gitlab.list_projects" -> [owner |-> PyNone, per_page |-> 30]
    [] fn = "gitlab.get_project_info" -> << >>
    [] fn = "gitlab.search_projects" ->
         [order_by |-> "last_activity_at", sort |-> "desc", per_page |-> 30]
    [] fn = "gitlab.list_merge_requests" -> [state |-> "opened", per_page |-> 30]
    [] fn = "gitlab.gitlab_get_file" -> [branch |-> "main"]
    [] fn = "gitlab.list_repository_tree" -> [path |-> "", branch |-> "main"]
    [] fn = "gitlab.gitlab_list_issues" -> [state |-> "opened", per_page |-> 30]
    [] fn = "gitlab.gitlab_create_issue" ->
         [description |-> << >>, labels |-> NoneList, assignee_ids |-> NoneList]
    [] fn = "gitlab.gitlab_get_issue" -> << >>
    [] fn = "gitlab.list_issues" -> [state |-> "opened", per_page |-> 30]
    [] fn = "gitlab.create_issue" ->
         [description |-> << >>, labels |-> NoneList, assignee_ids |-> NoneList]
    [] fn = "gitlab.get_issue" -> << >>
    [] fn = "gitlab.get_file" -> [branch |-> "main"]

\* the function an alias forwards to
AliasTarget(fn) ==
  CASE fn = "gitlab.list_issues" -> "gitlab.gitlab_list_issues"
    [] fn = "gitlab.create_issue" -> "gitlab.gitlab_create_issue"
    [] fn = "gitlab.get_issue" -> "gitlab.gitlab_get_issue"
    [] fn = "gitlab.get_file" -> "gitlab.gitlab_get_file"

\* faulty variant, for comparison: the get_file alias forwards the project and the path only
AliasPassesWithoutBranch(fn) ==
  CASE fn = "gitlab.list_issues" -> << "project_id", "state", "per_page" >>
    [] fn = "gitlab.create_issue" ->
         << "project_id", "title", "description", "labels", "assignee_ids" >>
    [] fn = "gitlab.get_issue" -> << "project_id", "issue_iid" >>
    [] fn = "gitlab.get_file" -> << "project_id", "file_path" >>

\* the variables an alias passes, in the order of the call
AliasPasses(fn) ==
  CASE fn = "gitlab.list_issues" -> << "project_id", "state", "per_page" >>
    [] fn = "gitlab.create_issue" ->
         << "project_id", "title", "description", "labels", "assignee_ids" >>
    [] fn = "gitlab.get_issue" -> << "project_id", "issue_iid" >>
    [] fn = "gitlab.get_file" -> << "project_id", "file_path", "branch" >>

EntryPc(fn) ==
  CASE fn \in FileTools -> "content"
    [] fn \in Aliases -> "forward"
    [] OTHER -> "request"

\* the parameters of fn bound to the supplied arguments and the defaults
Bind(fn, args) ==
  [p \in Range(Params(fn)) |->
     IF p \in DOMAIN args THEN args[p] ELSE Defaults(fn)[p]]

\* a positional call of fn with the given values
BindPositional(fn, values) ==
  [p \in Range(Params(fn)) |->
     LET i == CHOOSE j \in 1..Len(Params(fn)) : Params(fn)[j] = p
     IN IF i <= Len(values) THEN values[i] ELSE Defaults(fn)[p]]

Idle == [pc |-> "idle", stack |-> << >>, http |-> << >>, out |-> [kind |-> "none"]]

Start(tool, args) ==
  [pc |-> EntryPc(tool),
   stack |-> << [fn |-> tool, a |-> Bind(tool, args)] >>,
   http |-> << >>,
   out |-> [kind |-> "none"]]

\* lines 519-538: an alias returns what its forge-prefixed counterpart returns
AliasForward(s) ==
  LET f == Top(s)
      t == AliasTarget(f.fn)
  IN Call(s, t,
          BindPositional(t, [i \in 1..Len(AliasPasses(f.fn)) |-> f.a[AliasPasses(f.fn)[i]]]),
          EntryPc(t))

\* a frame returns: its caller returns the same value, the last one answers
ReturnStep(s) ==
  [s EXCEPT !.stack = SubSeq(@, 1, Len(@) - 1),
            !.pc = IF Len(s.stack) > 1 THEN "return" ELSE "done"]

\* one step of the run: the handler position of the top frame acts
Step(s, rs) ==
  LET fn == Top(s).fn IN
  CASE s.pc = "forward" -> AliasForward(s)
    [] s.pc = "return" -> ReturnStep(s)
    [] s.pc = "content" /\ fn = "github.get_file" -> GitHubGetFileContent(s, rs)
    [] s.pc = "metadata" /\ fn = "github.get_file" -> GitHubGetFileMetadata(s, rs)
    [] s.pc = "content" /\ fn = "gitlab.gitlab_get_file" -> GitLabGetFileContent(s, rs)
    [] s.pc = "metadata" /\ fn = "gitlab.gitlab_get_file" -> GitLabGetFileMetadata(s, rs)
    [] s.pc = "request" /\ fn = "github.list_issues" -> GitHubListIssues(s, rs)
    [] s.pc = "request" /\ fn = "gitlab.gitlab_list_issues" -> GitLabListIssues(s, rs)
    [] s.pc = "request" /\ fn = "gitlab.gitlab_create_issue" -> GitLabCreateIssue(s, rs)
    [] s.pc = "request" /\ fn = "gitlab.gitlab_get_issue" -> GitLabGetIssue(s, rs)
    [] s.pc = "request" /\ fn = "github.list_repository_contents" ->
         GitHubListRepositoryContents(s, rs)
    [] s.pc = "request" /\ fn = "gitlab.list_repository_tree" ->
         GitLabListRepositoryTree(s, rs)
    [] s.pc = "request" /\ fn = "github.list_repositories" -> GitHubListRepositories(s, rs)
    [] s.pc = "request" /\ fn = "github.get_repository_info" ->
         GitHubGetRepositoryInfo(s, rs)
    [] s.pc = "request" /\ fn = "github.create_issue" -> GitHubCreateIssue(s, rs)
    [] s.pc = "request" /\ fn = "github.get_issue" -> GitHubGetIssue(s, rs)
    [] s.pc = "request" /\ fn = "github.search_repositories" ->
         GitHubSearchRepositories(s, rs)
    [] s.pc = "request" /\ fn = "gitlab.list_projects" -> GitLabListProjects(s, rs)
    [] s.pc = "request" /\ fn = "gitlab.get_project_info" -> GitLabGetProjectInfo(s, rs)
    [] s.pc = "request" /\ fn = "gitlab.search_projects" -> GitLabSearchProjects(s, rs)
    [] s.pc = "request" /\ fn = "gitlab.list_merge_requests" ->
         GitLabListMergeRequests(s, rs)

\* the run of a call carried to its answer
RECURSIVE RunToEnd(_, _)
RunToEnd(s, rs) == IF s.pc = "done" THEN s ELSE RunToEnd(Step(s, rs), rs)

(***************************************************************************)
(* What the agent supplies and what the upstream stub answers.             *)
(***************************************************************************)
\* page sizes a caller may ask for; the parameter is an int without a check
PerPageValues == { -5, 0, 1, 100, 101 }

\* the parameter per_page left out, or given each of the values
WithPerPage(args) == { args } \cup { args @@ [per_page |-> p] : p \in PerPageValues }

Branches == { "main", "master", "dev" }

GitHubFileArgs ==
  { [owner |-> "octo", repo |-> "demo", file_path |-> "src/app"] }
  \cup { [owner |-> "octo", repo |-> "demo", file_path |-> "src/app", branch |-> b] :
           b \in Branches }

GitLabFileArgs ==
  { [project_id |-> << "g", "/", "p" >>, file_path |-> << "d", "/", "f" >>] }
  \cup { [project_id |-> << "g", "/", "p" >>, file_path |-> << "d", "/", "f" >>,
          branch |-> b] : b \in Branches }

\* "A", "é" followed by a newline as GitHub sends it, the byte 0xFF, "hi\n",
\* and the byte 0xC3 on its own (the first half of "é")
FileBodies ==
  { [shape |-> "dict", type |-> "file", content |-> << "Q", "Q", "=", "=" >>,
     size |-> 1, encoding |-> "base64", sha |-> "sha-a", last_commit_id |-> "commit-a"],
    [shape |-> "dict", type |-> "file", content |-> << "w", "6", "k", "=", "\n" >>,
     size |-> 2, encoding |-> "base64", sha |-> "sha-e", last_commit_id |-> "commit-e"],
    [shape |-> "dict", type |-> "file", content |-> << "/", "w", "=", "=" >>,
     size |-> 1, encoding |-> "base64", sha |-> "sha-x", last_commit_id |-> "commit-x"],
    [shape |-> "dict", type |-> "file", content |-> << "a", "G", "k", "K" >>,
     size |-> 3],
    [shape |-> "dict", type |-> "file", content |-> << "w", "w", "=", "=" >>,
     size |-> 1] }

\* the contents endpoint answers a directory path with a list (lines 350-366)
GitHubContentResponses ==
  { NetFail, Failed(404), Failed(500) }
  \cup { Ok(b) : b \in FileBodies }
  \cup { Ok([shape |-> "dict", type |-> "submodule", size |-> 0]),
         Ok([shape |-> "list"]) }

GitLabContentResponses ==
  { NetFail, Failed(404), Failed(500) } \cup { Ok(b) : b \in FileBodies }

MetadataResponses ==
  { NetFail, Failed(404), Failed(500), Ok([shape |-> "dict"]) }
  \cup { Ok([shape |-> "dict", default_branch |-> b]) :
           b \in { "main", "master", "dev", PyNone } }

\* pages of issues: the i-th item has number i and is a pull request or not
IssuePages ==
  UNION { [1..k -> BOOLEAN] : k \in 0..MaxIssues }

GitHubIssueItem(n, pr) ==
  LET issue == [number |-> n, title |-> "t", state |-> "open", user |-> [login |-> "u"],
                created_at |-> "c", updated_at |-> "d",
                labels |-> << [name |-> "bug"] >>,
                assignees |-> << [login |-> "v"] >>,
                comments |-> n, body |-> << 104, 105 >>]
  IN IF pr THEN issue @@ [pull_request |-> [url |-> "pr"]] ELSE issue

GitLabIssueItem(n, pr) ==
  LET issue == [iid |-> n, id |-> 100 + n, title |-> "t", state |-> "opened",
                author |-> [username |-> "u"], created_at |-> "c", updated_at |-> "d",
                labels |-> << "bug" >>, assignees |-> << [username |-> "v"] >>,
                user_notes_count |-> n, web_url |-> "w",
                description |-> << 104, 105 >>]
  IN IF pr THEN issue @@ [pull_request |-> [url |-> "pr"]] ELSE issue

ListFailures == { NetFail, Failed(404), Failed(500) }

GitHubIssueResponses ==
  ListFailures
  \cup { Ok([shape |-> "list",
             items |-> [i \in 1..Len(p) |-> GitHubIssueItem(i, p[i])]]) : p \in IssuePages }

GitLabIssueResponses ==
  ListFailures
  \cup { Ok([shape |-> "list",
             items |-> [i \in 1..Len(p) |-> GitLabIssueItem(i, p[i])]]) : p \in IssuePages }

GitLabIssueResponse ==
  ListFailures \cup { Ok(GitLabIssueItem(n, FALSE)) : n \in { 1, 2 } }

GitHubListIssuesArgs ==
  { [owner |-> "octo", repo |-> "demo"],
    [owner |-> "octo", repo |-> "demo", state |-> "open"],
    [owner |-> "octo", repo |-> "demo", state |-> "all", per_page |-> 150] }
  \cup WithPerPage([owner |-> "octo", repo |-> "demo"])

GitLabListIssuesArgs ==
  { [project_id |-> << "g", "/", "p" >>],
    [project_id |-> << "g", "/", "p" >>, state |-> "closed"],
    [project_id |-> << "g", "/", "p" >>, state |-> "all", per_page |-> 150] }
  \cup WithPerPage([project_id |-> << "g", "/", "p" >>])

GitLabCreateIssueArgs ==
  { [project_id |-> << "g", "/", "p" >>, title |-> "t"],
    [project_id |-> << "g", "/", "p" >>, title |-> "t", description |-> << 104, 105 >>],
    [project_id |-> << "g", "/", "p" >>, title |-> "t", description |-> << 104, 105 >>,
     labels |-> ListOf(<< "bug", "ui" >>)],
    [project_id |-> << "g", "/", "p" >>, title |-> "t", description |-> << 104, 105 >>,
     labels |-> ListOf(<< >>), assignee_ids |-> ListOf(<< 7 >>)] }

GitLabGetIssueArgs ==
  { [project_id |-> << "g", "/", "p" >>, issue_iid |-> n] : n \in { 1, 2 } }

\* names of directory entries: "a", "A", "B", "ab"
EntryNames == { << 97 >>, << 65 >>, << 66 >>, << 97, 98 >> }

GitHubEntries ==
  { [name |-> n, type |-> k, size |-> 1, path |-> n] :
      n \in EntryNames, k \in { "dir", "file", "symlink" } }

GitLabEntries ==
  { [name |-> n, type |-> k, path |-> n, mode |-> "100644"] :
      n \in EntryNames, k \in { "tree", "blob" } }

\* the listings of a directory: no two entries of a directory share a name
Listings(entries) ==
  { l \in SeqsUpTo(entries, MaxEntries) :
      \A i, j \in 1..Len(l) : i # j => l[i].name # l[j].name }

GitHubTreeResponses ==
  ListFailures
  \cup { Ok([shape |-> "dict", name |-> << 97 >>, size |-> 1, type |-> "file"]) }
  \cup { Ok([shape |-> "list", items |-> l]) : l \in Listings(GitHubEntries) }

GitLabTreeResponses ==
  ListFailures \cup { Ok([shape |-> "list", items |-> l]) : l \in Listings(GitLabEntries) }

GitHubTreeArgs ==
  { [owner |-> "octo", repo |-> "demo"],
    [owner |-> "octo", repo |-> "demo", path |-> "src", branch |-> "dev"] }

GitLabTreeArgs ==
  { [project_id |-> << "g", "/", "p" >>],
    [project_id |-> << "g", "/", "p" >>, path |-> "src", branch |-> "dev"] }

\* a failure, or a page: the first items of a sequence of MaxPage items
ListResponses(all) ==
  ListFailures
  \cup { Ok([shape |-> "list", items |-> SubSeq(all, 1, k)]) : k \in 0..Len(all) }

RepoItem(n) ==
  [name |-> "demo", full_name |-> "octo/demo", private |-> FALSE,
   stargazers_count |-> n, forks_count |-> 0, language |-> "Python",
   created_at |-> "c", updated_at |-> "d", default_branch |-> "main",
   license |-> [name |-> "MIT"], html_url |-> "h", clone_url |-> "u", ssh_url |-> "s"]

ProjectItem(n) ==
  [id |-> n, name |-> "p", path_with_namespace |-> "g/p", visibility |-> "public",
   star_count |-> n, forks_count |-> 0, created_at |-> "c", last_activity_at |-> "d",
   http_url_to_repo |-> "u", ssh_url_to_repo |-> "s", web_url |-> "w",
   issues_enabled |-> TRUE, merge_requests_enabled |-> TRUE]

MergeRequestItem(n) ==
  GitLabIssueItem(n, FALSE) @@ [source_branch |-> "dev", target_branch |-> "main"]

\* the tools that list or search with a page size
ListingInvocations ==
  { [tool |-> "github.list_repositories", args |-> a, responses |-> [list |-> << r >>]] :
      a \in WithPerPage([owner |-> "octo"]), r \in ListResponses([i \in 1..MaxPage |-> RepoItem(i)]) }
  \cup
  { [tool |-> "github.search_repositories", args |-> a, responses |-> [list |-> << r >>]] :
      a \in WithPerPage([query |-> "x"]) \cup { [query |-> "x", sort |-> "forks", order |-> "asc"] },
      r \in ListFailures
            \cup { Ok([shape |-> "dict", total_count |-> 500,
                       items |-> [i \in 1..k |-> RepoItem(i)]]) : k \in 0..MaxPage } }
  \cup
  { [tool |-> "gitlab.list_projects", args |-> a,
     responses |-> [users |-> << u >>, groups |-> << g >>, list |-> << r >>]] :
      a \in WithPerPage(<< >>) \cup WithPerPage([owner |-> "octo"])
            \cup { [owner |-> ""], [owner |-> PyNone] },
      \* the users a search matches have ids 11, 12, ..., the groups 21, 22, ...
      u \in ListResponses([i \in 1..MaxPage |-> [id |-> 10 + i]]),
      g \in ListResponses([i \in 1..MaxPage |-> [id |-> 20 + i]]),
      r \in ListResponses([i \in 1..MaxPage |-> ProjectItem(i)]) }
  \cup
  { [tool |-> "gitlab.search_projects", args |-> a, responses |-> [list |-> << r >>]] :
      a \in WithPerPage([query |-> "x"]) \cup { [query |-> "x", order_by |-> "name", sort |-> "asc"] },
      r \in ListResponses([i \in 1..MaxPage |-> ProjectItem(i)]) }
  \cup
  { [tool |-> "gitlab.list_merge_requests", args |-> a, responses |-> [list |-> << r >>]] :
      a \in WithPerPage([project_id |-> << "g", "/", "p" >>])
            \cup { [project_id |-> << "g", "/", "p" >>, state |-> "merged"] },
      r \in ListResponses([i \in 1..MaxPage |-> MergeRequestItem(i)]) }

\* the tools that read or create one object
DetailInvocations ==
  { [tool |-> "github.get_repository_info", args |-> [owner |-> "octo", repo |-> "demo"],
     responses |-> [repository |-> << r >>]] :
      r \in ListFailures \cup { Ok(RepoItem(1)) } }
  \cup
  { [tool |-> "github.get_issue",
     args |-> [owner |-> "octo", repo |-> "demo", issue_number |-> n],
     responses |-> [issue |-> << r >>]] :
      n \in { 1, 2 },
      r \in ListFailures \cup { Ok(GitHubIssueItem(1, FALSE) @@ [html_url |-> "h"]) } }
  \cup
  { [tool |-> "github.create_issue", args |-> a, responses |-> [create |-> << r >>]] :
      a \in { [owner |-> "octo", repo |-> "demo", title |-> "t"],
              [owner |-> "octo", repo |-> "demo", title |-> "t", body |-> << 104, 105 >>,
               labels |-> ListOf(<< "bug" >>), assignees |-> ListOf(<< >>)] },
      r \in ListFailures \cup { Ok(GitHubIssueItem(3, FALSE) @@ [html_url |-> "h"]) } }
  \cup
  { [tool |-> "gitlab.get_project_info", args |-> [project_id |-> << "g", "/", "p" >>],
     responses |-> [project |-> << r >>]] :
      r \in ListFailures \cup { Ok(ProjectItem(1)) } }

Invocations ==
  { [tool |-> "github.list_repository_contents", args |-> a,
     responses |-> [tree |-> << r >>]] :
      a \in GitHubTreeArgs, r \in GitHubTreeResponses }
  \cup
  { [tool |-> "gitlab.list_repository_tree", args |-> a,
     responses |-> [tree |-> << r >>]] :
      a \in GitLabTreeArgs, r \in GitLabTreeResponses }
  \cup
  { [tool |-> "github.list_issues", args |-> a, responses |-> [list |-> << r >>]] :
      a \in GitHubListIssuesArgs, r \in GitHubIssueResponses }
  \cup
  { [tool |-> t, args |-> a, responses |-> [list |-> << r >>]] :
      t \in { "gitlab.gitlab_list_issues", "gitlab.list_issues" },
      a \in GitLabListIssuesArgs, r \in GitLabIssueResponses }
  \cup
  { [tool |-> t, args |-> a, responses |-> [create |-> << r >>]] :
      t \in { "gitlab.gitlab_create_issue", "gitlab.create_issue" },
      a \in GitLabCreateIssueArgs, r \in GitLabIssueResponse }
  \cup
  { [tool |-> t, args |-> a, responses |-> [issue |-> << r >>]] :
      t \in { "gitlab.gitlab_get_issue", "gitlab.get_issue" },
      a \in GitLabGetIssueArgs, r \in GitLabIssueResponse }
  \cup
  { [tool |-> "github.get_file", args |-> a, responses |-> [content |-> << c1, c2 >>, metadata |-> << m >>]] :
      a \in GitHubFileArgs, c1 \in GitHubContentResponses,
      m \in MetadataResponses, c2 \in GitHubContentResponses }
  \cup
  { [tool |-> t, args |-> a, responses |-> [content |-> << c1, c2 >>, metadata |-> << m >>]] :
      t \in { "gitlab.gitlab_get_file", "gitlab.get_file" },
      a \in GitLabFileArgs, c1 \in GitLabContentResponses,
      m \in MetadataResponses, c2 \in GitLabContentResponses }
  \cup ListingInvocations
  \cup DetailInvocations

(***************************************************************************)
(* The state machine.                                                      *)
(***************************************************************************)
NoCall == [tool |-> "none", args |-> << >>]

Init ==
  /\ given = NoCall
  /\ responses = << >>
  /\ run = Idle

\* the agent invokes a tool; the stub's answers are fixed for the call
Invoke ==
  /\ run.pc = "idle"
  /\ \E i \in Invocations :
       /\ given' = [tool |-> i.tool, args |-> i.args]
       /\ responses' = i.responses
       /\ run' = Start(i.tool, i.args)

At(fn, pc) == run.pc = pc /\ run.stack # << >> /\ Top(run).fn = fn

\* an alias calls its counterpart
alias_forward ==
  /\ run.pc = "forward"
  /\ run' = Step(run, responses)
  /\ UNCHANGED << given, responses >>

github_get_file_content ==
  /\ At("github.get_file", "content")
  /\ run' = Step(run, responses)
  /\ UNCHANGED << given, responses >>

github_get_file_metadata ==
  /\ At("github.get_file", "metadata")
  /\ run' = Step(run, responses)
  /\ UNCHANGED << given, responses >>

gitlab_get_file_content ==
  /\ At("gitlab.gitlab_get_file", "content")
  /\ run' = Step(run, responses)
  /\ UNCHANGED << given, responses >>

gitlab_get_file_metadata ==
  /\ At("gitlab.gitlab_get_file", "metadata")
  /\ run' = Step(run, responses)
  /\ UNCHANGED << given, responses >>

github_list_issues ==
  /\ At("github.list_issues", "request")
  /\ run' = Step(run, responses)
  /\ UNCHANGED << given, responses >>

gitlab_list_issues ==
  /\ At("gitlab.gitlab_list_issues", "request")
  /\ run' = Step(run, responses)
  /\ UNCHANGED << given, responses >>

gitlab_create_issue ==
  /\ At("gitlab.gitlab_create_issue", "request")
  /\ run' = Step(run, responses)
  /\ UNCHANGED << given, responses >>

gitlab_get_issue ==
  /\ At("gitlab.gitlab_get_issue", "request")
  /\ run' = Step(run, responses)
  /\ UNCHANGED << given, responses >>

github_list_repository_contents ==
  /\ At("github.list_repository_contents", "request")
  /\ run' = Step(run, responses)
  /\ UNCHANGED << given, responses >>

gitlab_list_repository_tree ==
  /\ At("gitlab.list_repository_tree", "request")
  /\ run' = Step(run, responses)
  /\ UNCHANGED << given, responses >>

github_list_repositories ==
  /\ At("github.list_repositories", "request")
  /\ run' = Step(run, responses)
  /\ UNCHANGED << given, responses >>

github_get_repository_info ==
  /\ At("github.get_repository_info", "request")
  /\ run' = Step(run, responses)
  /\ UNCHANGED << given, responses >>

github_create_issue ==
  /\ At("github.create_issue", "request")
  /\ run' = Step(run, responses)
  /\ UNCHANGED << given, responses >>

github_get_issue ==
  /\ At("github.get_issue", "request")
  /\ run' = Step(run, responses)
  /\ UNCHANGED << given, responses >>

github_search_repositories ==
  /\ At("github.search_repositories", "request")
  /\ run' = Step(run, responses)
  /\ UNCHANGED << given, responses >>

gitlab_list_projects ==
  /\ At("gitlab.list_projects", "request")
  /\ run' = Step(run, responses)
  /\ UNCHANGED << given, responses >>

gitlab_get_project_info ==
  /\ At("gitlab.get_project_info", "request")
  /\ run' = Step(run, responses)
  /\ UNCHANGED << given, responses >>

gitlab_search_projects ==
  /\ At("gitlab.search_projects", "request")
  /\ run' = Step(run, responses)
  /\ UNCHANGED << given, responses >>

gitlab_list_merge_requests ==
  /\ At("gitlab.list_merge_requests", "request")
  /\ run' = Step(run, responses)
  /\ UNCHANGED << given, responses >>

Return ==
  /\ run.pc = "return"
  /\ run' = Step(run, responses)
  /\ UNCHANGED << given, responses >>

\* the answer is delivered; nothing of the call is kept
Respond ==
  /\ run.pc = "done"
  /\ given' = NoCall
  /\ responses' = << >>
  /\ run' = Idle

Next ==
  \/ Invoke
  \/ alias_forward
  \/ github_get_file_content
  \/ github_get_file_metadata
  \/ gitlab_get_file_content
  \/ gitlab_get_file_metadata
  \/ github_list_issues
  \/ gitlab_list_issues
  \/ gitlab_create_issue
  \/ gitlab_get_issue
  \/ github_list_repository_contents
  \/ gitlab_list_repository_tree
  \/ github_list_repositories
  \/ github_get_repository_info
  \/ github_create_issue
  \/ github_get_issue
  \/ github_search_repositories
  \/ gitlab_list_projects
  \/ gitlab_get_project_info
  \/ gitlab_search_projects
  \/ gitlab_list_merge_requests
  \/ Return
  \/ Respond

Spec == Init /\ [][Next]_vars
(***************************************************************************)
(* The truncations on their own.  A file cut at max_size characters is too *)
(* long to be decoded and compared within a run of the tools above, so the *)
(* projections that truncate are also run directly on texts whose lengths  *)
(* lie around their thresholds: the issue, description and merge request   *)
(* projections on an upstream object carrying the text, and the file       *)
(* envelope (lines 298-314, 334-349) on the decoded content.               *)
(***************************************************************************)
\* a text of n characters, no two neighbours alike
TextOfLength(n) == [i \in 1..n |-> 97 + (i % 26)]

\* the lengths tried around a threshold
LengthsAround(limit) == { 0, 1 } \cup ((limit - MaxOver)..(limit + MaxOver))

BodySites ==
  { "github.list_issues", "gitlab.gitlab_list_issues", "gitlab.list_merge_requests" }

ContentSites == { "github.get_file", "gitlab.gitlab_get_file" }

\* upstream hands a text to one of the projections
receive_text ==
  /\ run.pc = "idle"
  /\ \E site \in BodySites \cup ContentSites :
       \E n \in LengthsAround(IF site \in BodySites THEN BodyLimit ELSE max_size) :
         /\ given' = [tool |-> site, args |-> << >>]
         /\ responses' = [text |-> TextOfLength(n)]
         /\ run' = [Idle EXCEPT !.pc = "project"]

\* lines 131-142 (GitHub), 168-181 and 497-512 (GitLab): the object is projected
project_body ==
  /\ run.pc = "project"
  /\ given.tool \in BodySites
  /\ run' = [run EXCEPT
       !.pc = "done",
       !.out = [kind |-> "json",
                val |-> CASE given.tool = "github.list_issues" ->
                               GitHubIssueSummary(
                                 [GitHubIssueItem(1, FALSE) EXCEPT !.body = responses.text])
                          [] given.tool = "gitlab.gitlab_list_issues" ->
                               GitLabIssueSummary(
                                 [GitLabIssueItem(1, FALSE) EXCEPT
                                    !.description = responses.text])
                          [] given.tool = "gitlab.list_merge_requests" ->
                               GitLabMergeRequestSummary(
                                 [MergeRequestItem(1) EXCEPT
                                    !.description = responses.text])]]
  /\ UNCHANGED << given, responses >>

\* lines 298-314 (GitHub), 334-349 (GitLab): the decoded content is cut and wrapped
project_content ==
  /\ run.pc = "project"
  /\ given.tool \in ContentSites
  /\ LET body == [shape |-> "dict", type |-> "file", size |-> Len(responses.text)]
     IN run' = [run EXCEPT
          !.pc = "done",
          !.out = [kind |-> "json",
                   val |-> IF given.tool = "github.get_file"
                           THEN GitHubFileContent(
                                  Bind(given.tool, [owner |-> "octo", repo |-> "demo",
                                                    file_path |-> "src/app"]),
                                  body, TruncateContent(responses.text))
                           ELSE GitLabFileContent(
                                  Bind(given.tool, [project_id |-> << "g", "/", "p" >>,
                                                    file_path |-> << "d", "/", "f" >>]),
                                  body, TruncateContent(responses.text))]]
  /\ UNCHANGED << given, responses >>

TruncationNext ==
  \/ receive_text
  \/ project_body
  \/ project_content
  \/ Respond

TruncationSpec == Init /\ [][TruncationNext]_vars


(***************************************************************************)
(* Vocabulary of the properties.                                           *)
(***************************************************************************)
FileCall ==
  given.tool \in { "github.get_file", "gitlab.gitlab_get_file", "gitlab.get_file" }

Done == run.pc = "done"

\* the branch the invocation asks for, "main" when the agent names none
RequestedBranch == Bind(given.tool, given.args).branch

ContentRequests == { i \in 1..Len(run.http) : run.http[i].endpoint = "content" }

ContentFetches == Cardinality(ContentRequests)

MetadataLookups == Sent(run, "metadata")

\* the branch of the k-th content fetch
FetchedBranch(k) ==
  LET i == CHOOSE j \in ContentRequests :
             Cardinality({ h \in ContentRequests : h <= j }) = k
  IN run.http[i].params[1][2]

Is404(r) == r.net /\ r.status = 404

FirstFetch404 == Is404(responses.content[1])

\* frames of the file fetcher on the stack, beyond the first
RecursionDepth ==
  Cardinality({ i \in 1..Len(run.stack) : run.stack[i].fn \in FileTools }) - 1

IsEnvelope == run.out.kind = "json"

\* the id key of the forge's envelopes
IdKey == IF given.tool = "github.get_file" THEN "repository" ELSE "project"

IsNotFoundEnvelope ==
  /\ IsEnvelope
  /\ Keys(run.out.val) = << IdKey, "file_path", "branch", "error", "suggestion" >>
  /\ Get(run.out.val, "error")[1] = "File not found"

\* the text of the sample files, written out
SampleText(body) ==
  CASE body.content = << "Q", "Q", "=", "=" >> -> << 65 >>
    [] body.content = << "w", "6", "k", "=", "\n" >> -> << 233 >>
    [] body.content = << "a", "G", "k", "K" >> -> << 104, 105, 10 >>
    [] OTHER -> << >>

IsTextFile(r) ==
  /\ r.net
  /\ r.status = 200
  /\ r.body.shape = "dict"
  /\ "type" \in DOMAIN r.body
  /\ r.body.type = "file"
  /\ SampleText(r.body) # << >>

C2_AtMostOneRetry ==
  FileCall =>
    /\ RecursionDepth <= 1
    /\ ContentFetches <= 2
    /\ MetadataLookups <= 1
    /\ (ContentFetches = 2 => FetchedBranch(2) # "main")

C2_Witness ==
  /\ FileCall
  /\ Done
  /\ ContentFetches = 2
  /\ Is404(responses.content[2])

C3_Scenario ==
  /\ FileCall
  /\ RequestedBranch = "main"
  /\ FirstFetch404
  /\ responses.metadata[1].net
  /\ responses.metadata[1].status = 200
  /\ "default_branch" \in DOMAIN responses.metadata[1].body
  /\ responses.metadata[1].body.default_branch # "main"
  /\ IsTextFile(responses.content[2])

(***************************************************************************)
(* C3.  Asked for "main", with a 404 on "main", a metadata response that   *)
(* declares a default branch other than "main" and a text file on that     *)
(* branch, the call returns the success envelope: its content is the text  *)
(* of the file fetched second, its branch the declared default branch.     *)
(***************************************************************************)
C3_FallbackReturnsDefaultBranchContent ==
  (C3_Scenario /\ Done) =>
    /\ IsEnvelope
    /\ ~HasKey(run.out.val, "error")
    /\ Get(run.out.val, "content") = SampleText(responses.content[2].body)
    /\ Get(run.out.val, "size") = responses.content[2].body.size
    /\ Get(run.out.val, "branch") = responses.metadata[1].body.default_branch

C3_Witness ==
  /\ C3_Scenario
  /\ Done
  /\ responses.metadata[1].body.default_branch = "master"
  /\ Get(run.out.val, "branch") = "master"
  /\ Get(run.out.val, "content") = << 104, 105, 10 >>

MetadataFails == ~responses.metadata[1].net \/ responses.metadata[1].status # 200

(***************************************************************************)
(* C4.  Asked for "main", with a 404 on the first content fetch and a      *)
(* metadata fetch that fails (transport failure or a status other than     *)
(* 200), the call fetches the content once only and returns the not-found  *)
(* envelope for "main".                                                    *)
(***************************************************************************)
C4_MetadataFailureFallsThrough ==
  (FileCall /\ Done /\ RequestedBranch = "main" /\ FirstFetch404 /\ MetadataFails) =>
    /\ ContentFetches = 1
    /\ MetadataLookups = 1
    /\ IsNotFoundEnvelope
    /\ Get(run.out.val, "branch") = "main"

C4_Witness ==
  /\ FileCall
  /\ Done
  /\ RequestedBranch = "main"
  /\ FirstFetch404
  /\ ~responses.metadata[1].net
  /\ IsNotFoundEnvelope

EndsIn404 ==
  /\ FileCall
  /\ Done
  /\ ContentFetches > 0
  /\ Is404(responses.content[ContentFetches])

DirectoryListingTool ==
  IF given.tool = "github.get_file" THEN "list_repository_contents"
  ELSE "list_repository_tree"

(***************************************************************************)
(* C5.  A call whose last content fetch returned 404 returns the not-found *)
(* envelope: the repository or project id, the file path, the branch of    *)
(* that fetch, an error message and the suggestion to use the directory    *)
(* listing tool, and no content field.                                     *)
(***************************************************************************)
C5_NotFoundEnvelope ==
  EndsIn404 =>
    /\ IsNotFoundEnvelope
    /\ Get(run.out.val, IdKey) =
         (IF given.tool = "github.get_file"
          THEN << given.args.owner, "/", given.args.repo >>
          ELSE given.args.project_id)
    /\ Get(run.out.val, "file_path") = given.args.file_path
    /\ Get(run.out.val, "branch") = FetchedBranch(ContentFetches)
    /\ Get(run.out.val, "suggestion") = DirectoryListingTool
    /\ ~HasKey(run.out.val, "content")

C5_Witness ==
  /\ EndsIn404
  /\ ContentFetches = 2
  /\ IsNotFoundEnvelope
  /\ Get(run.out.val, "branch") = "dev"

(***************************************************************************)
(* C6.  Whatever failure occurs at whichever HTTP step, a tool call        *)
(* returns text (a JSON envelope or a bare string) and never lets a fault  *)
(* escape to its caller.                                                   *)
(***************************************************************************)
C6_NoUnhandledFault == Done => run.out.kind \in { "json", "str" }

ListedPage == responses.list[1].body.items

PageListed ==
  /\ given.tool \in { "github.list_issues", "gitlab.gitlab_list_issues", "gitlab.list_issues" }
  /\ Done
  /\ responses.list[1].net
  /\ responses.list[1].status = 200

HasNoPullRequest(item) == "pull_request" \notin DOMAIN item

OutputIds(key) == [i \in 1..Len(run.out.val) |-> Get(run.out.val[i], key)]

(***************************************************************************)
(* C7.  GitHub list_issues outputs exactly the items of the page that have *)
(* no pull_request key, one issue per item and in the order of the page;   *)
(* GitLab gitlab_list_issues outputs one issue per item of the page.       *)
(***************************************************************************)
C7_PullRequestsExcludedOnGitHubOnly ==
  PageListed =>
    /\ IsEnvelope
    /\ IF given.tool = "github.list_issues"
       THEN LET kept == SelectSeq(ListedPage, HasNoPullRequest)
            IN OutputIds("number") = [i \in 1..Len(kept) |-> kept[i].number]
       ELSE OutputIds("iid") = [i \in 1..Len(ListedPage) |-> ListedPage[i].iid]

\* three issues and one item tagged as a pull request give three issues
C7_Witness ==
  /\ PageListed
  /\ given.tool = "github.list_issues"
  /\ Len(ListedPage) = 4
  /\ Cardinality({ i \in 1..4 : HasNoPullRequest(ListedPage[i]) }) = 3
  /\ Len(run.out.val) = 3

Prefixed(tool) ==
  CASE tool = "gitlab.list_issues" -> "gitlab.gitlab_list_issues"
    [] tool = "gitlab.create_issue" -> "gitlab.gitlab_create_issue"
    [] tool = "gitlab.get_issue" -> "gitlab.gitlab_get_issue"
    [] tool = "gitlab.get_file" -> "gitlab.gitlab_get_file"

AliasCall ==
  given.tool \in
    { "gitlab.list_issues", "gitlab.create_issue", "gitlab.get_issue", "gitlab.get_file" }

(***************************************************************************)
(* C8.  On the GitLab adapter a generic alias, given the arguments and the *)
(* upstream responses of its gitlab_-prefixed counterpart, issues the same *)
(* HTTP requests and returns the same output.                              *)
(***************************************************************************)
C8_AliasesMatchCounterparts ==
  (AliasCall /\ Done) =>
    LET counterpart == RunToEnd(Start(Prefixed(given.tool), given.args), responses)
    IN /\ run.http = counterpart.http
       /\ run.out.kind = counterpart.out.kind
       /\ run.out.val = counterpart.out.val

C8_Witness ==
  /\ given.tool = "gitlab.get_file"
  /\ Done
  /\ "branch" \in DOMAIN given.args
  /\ given.args.branch = "main"
  /\ ContentFetches = 2
  /\ IsEnvelope
  /\ HasKey(run.out.val, "content")

DirectoryListed ==
  /\ given.tool \in { "github.list_repository_contents", "gitlab.list_repository_tree" }
  /\ Done
  /\ responses.tree[1].net
  /\ responses.tree[1].status = 200
  /\ responses.tree[1].body.shape = "list"

UpstreamEntries == responses.tree[1].body.items

ListedContents == Get(run.out.val, "contents")

IsDirectoryEntry(e) == Get(e, "type") \in { "dir", "tree" }

IsFileEntry(e) == Get(e, "type") \in { "file", "blob" }

SortAgain(entries) ==
  IF given.tool = "github.list_repository_contents"
  THEN GitHubSortEntries(entries)
  ELSE GitLabSortEntries(entries)

(***************************************************************************)
(* C9.  In the listing of a directory every directory entry precedes every *)
(* file entry, whatever the names, and sorting the listing again leaves    *)
(* it unchanged; the listing holds the entries of the page, each once.     *)
(***************************************************************************)
C9_DirectoriesFirstAndIdempotent ==
  DirectoryListed =>
    /\ \A i, j \in 1..Len(ListedContents) :
         (IsFileEntry(ListedContents[i]) /\ IsDirectoryEntry(ListedContents[j])) => j < i
    /\ SortAgain(ListedContents) = ListedContents
    /\ Len(ListedContents) = Len(UpstreamEntries)
    /\ { Get(ListedContents[i], "name") : i \in 1..Len(ListedContents) }
         = { UpstreamEntries[i].name : i \in 1..Len(UpstreamEntries) }

\* upstream lists the file "a" before the directory "B"; the output turns them
C9_Witness ==
  /\ DirectoryListed
  /\ Len(UpstreamEntries) = 2
  /\ UpstreamEntries[1].name = << 97 >>
  /\ UpstreamEntries[1].type \in { "file", "blob" }
  /\ UpstreamEntries[2].name = << 66 >>
  /\ UpstreamEntries[2].type \in { "dir", "tree" }
  /\ Get(ListedContents[1], "name") = << 66 >>

UpstreamKey(item) ==
  IF given.tool = "github.list_repository_contents"
  THEN GitHubSortKey(GitHubDirectoryEntry(item))
  ELSE GitLabSortKey(GitLabTreeEntry(item))

ComparesEqual(x, y) ==
  /\ ~KeyLess(UpstreamKey(x), UpstreamKey(y))
  /\ ~KeyLess(UpstreamKey(y), UpstreamKey(x))

Reorderings(l) ==
  { [i \in 1..Len(l) |-> l[f[i]]] :
      f \in { g \in [1..Len(l) -> 1..Len(l)] : \A i, j \in 1..Len(l) : i # j => g[i] # g[j] } }

ListingOf(items) ==
  IF given.tool = "github.list_repository_contents"
  THEN GitHubSortEntries([i \in 1..Len(items) |-> GitHubDirectoryEntry(items[i])])
  ELSE GitLabSortEntries([i \in 1..Len(items) |-> GitLabTreeEntry(items[i])])

(***************************************************************************)
(* C10.  The comparator of the directory sort is total: two distinct       *)
(* entries compare equal only if their name and kind are identical, so the *)
(* listing does not depend on the order in which upstream returned the     *)
(* entries.                                                                *)
(***************************************************************************)
C10_ComparatorTotal ==
  DirectoryListed =>
    /\ \A i, j \in 1..Len(UpstreamEntries) :
         (i # j /\ ComparesEqual(UpstreamEntries[i], UpstreamEntries[j])) =>
           /\ UpstreamEntries[i].name = UpstreamEntries[j].name
           /\ UpstreamEntries[i].type = UpstreamEntries[j].type
    /\ \A l \in Reorderings(UpstreamEntries) : ListingOf(l) = ListedContents

\* the text upstream handed to a projection, its threshold, and the field
\* the projection put it in
TruncationDone == run.pc = "done" /\ given.tool \in BodySites \cup ContentSites

UpstreamText == responses.text

Threshold == IF given.tool \in BodySites THEN BodyLimit ELSE max_size

ProjectedText ==
  Get(run.out.val,
      CASE given.tool = "github.list_issues" -> "body"
        [] given.tool \in BodySites -> "description"
        [] OTHER -> "content")

\* the marker a cut text ends with: "..." or the note naming both lengths
Marker ==
  IF given.tool \in BodySites THEN << 46, 46, 46 >>
  ELSE TruncationMarker(Threshold, Len(UpstreamText))

(***************************************************************************)
(* C11.  Every truncation (issue body, issue and merge request description *)
(* at 500 characters, file content at 8000): a text no longer than the     *)
(* threshold is returned unchanged, without marker; a longer text is       *)
(* returned as its first threshold characters followed by the marker, so   *)
(* the output is at most threshold + marker length long.                   *)
(***************************************************************************)
C11_TruncationBounded ==
  TruncationDone =>
    /\ Len(UpstreamText) <= Threshold => ProjectedText = UpstreamText
    /\ Len(UpstreamText) > Threshold =>
         /\ SubSeq(ProjectedText, 1, Threshold) = SubSeq(UpstreamText, 1, Threshold)
         /\ SubSeq(ProjectedText, Threshold + 1, Len(ProjectedText)) = Marker
         /\ Len(ProjectedText) <= Threshold + Len(Marker)

\* a file content longer than 8000 characters has been cut
C11_Witness ==
  /\ TruncationDone
  /\ given.tool = "gitlab.gitlab_get_file"
  /\ Len(UpstreamText) = max_size + 1
  /\ Len(ProjectedText) > max_size + 1

\* the requests of the run that carry a page size
PagedRequests ==
  { i \in 1..Len(run.http) : HasKey(run.http[i].params, "per_page") }

PerPageSent(i) == Get(run.http[i].params, "per_page")

(***************************************************************************)
(* C12.  The page size a listing or search tool sends upstream as per_page *)
(* lies in 1..100 whatever the caller supplies, and is 30 when the caller  *)
(* supplies none.                                                          *)
(***************************************************************************)
C12_PerPageClamped ==
  \A i \in PagedRequests :
    /\ PerPageSent(i) \in 1..100
    /\ ("per_page" \in Range(Params(given.tool)) /\ "per_page" \notin DOMAIN given.args)
         => PerPageSent(i) = 30

ListingTools ==
  { "github.list_repositories", "github.list_issues", "github.search_repositories",
    "gitlab.list_projects", "gitlab.gitlab_list_issues", "gitlab.list_issues",
    "gitlab.search_projects", "gitlab.list_merge_requests" }

ListRequests == { i \in 1..Len(run.http) : run.http[i].endpoint = "list" }

\* the call is over and its list GET was answered with an error status
ListFailed ==
  /\ Done
  /\ given.tool \in ListingTools
  /\ ListRequests # { }
  /\ responses.list[1].net
  /\ responses.list[1].status \notin 200..299

\* the list GET was sent once and nothing was sent after it
StopsAtListRequest ==
  /\ Cardinality(ListRequests) = 1
  /\ run.http[Len(run.http)].endpoint = "list"

\* the action the error string of a listing tool names
ErrorAction(tool) ==
  CASE tool = "github.list_repositories" -> "Error fetching repositories"
    [] tool = "github.list_issues" -> "Error fetching issues"
    [] tool = "github.search_repositories" -> "Error searching repositories"
    [] tool = "gitlab.list_projects" -> "Error fetching projects"
    [] tool \in { "gitlab.gitlab_list_issues", "gitlab.list_issues" } ->
         "Error fetching issues"
    [] tool = "gitlab.search_projects" -> "Error searching projects"
    [] tool = "gitlab.list_merge_requests" -> "Error fetching merge requests"

(***************************************************************************)
(* C13 as stated.  When the list GET of a listing tool returns a non-2xx   *)
(* status, the tool returns an error envelope, a JSON object with an error *)
(* key, and stops: no further HTTP request, no retry.                      *)
(***************************************************************************)
C13_ListFailureEnvelope ==
  ListFailed =>
    /\ run.out.kind = "json"
    /\ HasKey(run.out.val, "error")
    /\ StopsAtListRequest

(***************************************************************************)
(* C13, amended.  When the list GET of a listing tool returns a 4xx or 5xx *)
(* status, the tool returns a bare error string, "Error <action>: <the     *)
(* HTTP error with its status>", not a JSON object, and stops: no further  *)
(* HTTP request, no retry.                                                 *)
(***************************************************************************)
C13_ListFailureErrorString ==
  ListFailed =>
    /\ run.out.kind = "str"
    /\ run.out.val[1] = ErrorAction(given.tool)
    /\ run.out.val[2][1] = "HTTPError"
    /\ run.out.val[2][2] = responses.list[1].status
    /\ StopsAtListRequest

\* list_projects resolved the owner to a group and the listing failed
C13_Witness ==
  /\ ListFailed
  /\ given.tool = "gitlab.list_projects"
  /\ Len(run.http) = 3
  /\ responses.list[1].status = 500
  /\ run.out.kind = "str"

\* the response to the last content fetch of the call
LastContentResponse == responses.content[ContentFetches]

\* the sample files whose bytes are not UTF-8: 0xFF, and 0xC3 on its own
IsBinarySample(body) ==
  body.content \in { << "/", "w", "=", "=" >>, << "w", "w", "=", "=" >> }

FetchedBinary ==
  /\ FileCall
  /\ Done
  /\ ContentFetches > 0
  /\ LastContentResponse.net
  /\ LastContentResponse.status = 200
  /\ LastContentResponse.body.shape = "dict"
  /\ "content" \in DOMAIN LastContentResponse.body
  /\ LastContentResponse.body.type = "file"
  /\ IsBinarySample(LastContentResponse.body)

(***************************************************************************)
(* C14.  When the content fetch succeeds and the decoded bytes are not     *)
(* valid text, get_file / gitlab_get_file return the binary envelope: the  *)
(* id, path and branch, an error message and the file's size and encoding, *)
(* and no content field.                                                   *)
(***************************************************************************)
C14_BinaryEnvelope ==
  FetchedBinary =>
    /\ IsEnvelope
    /\ Keys(run.out.val) = << IdKey, "file_path", "branch", "error", "file_info" >>
    /\ Get(run.out.val, "error")[1] = "File appears to be binary"
    /\ Get(Get(run.out.val, "file_info"), "size") = LastContentResponse.body.size
    /\ Get(Get(run.out.val, "file_info"), "encoding") =
         GetOr(LastContentResponse.body, "encoding",
               IF given.tool = "github.get_file" THEN "unknown" ELSE "base64")
    /\ ~HasKey(run.out.val, "content")

\* the lone byte 0xC3, fetched from the default branch after a 404 on "main"
C14_Witness ==
  /\ FetchedBinary
  /\ ContentFetches = 2
  /\ LastContentResponse.body.content = << "w", "w", "=", "=" >>
  /\ HasKey(run.out.val, "file_info")

\* the endpoints the call has addressed, in the order of its requests
Endpoints == [i \in 1..Len(run.http) |-> run.http[i].endpoint]

(***************************************************************************)
(* C15.  Every tool invocation sends at least one and at most three HTTP   *)
(* requests, one after another; three are sent only by the file fetchers   *)
(* (content, metadata, content again) and by list_projects (users, groups, *)
(* project listing).                                                       *)
(***************************************************************************)
C15_OneToThreeCalls ==
  given.tool # "none" =>
    /\ Len(run.http) <= 3
    /\ Done => Len(run.http) >= 1
    /\ Len(run.http) = 3 =>
         \/ FileCall /\ Endpoints = << "content", "metadata", "content" >>
         \/ given.tool = "gitlab.list_projects"
              /\ Endpoints = << "users", "groups", "list" >>

\* list_projects has searched users and groups and listed the group's projects
C15_Witness ==
  /\ Done
  /\ given.tool = "gitlab.list_projects"
  /\ Endpoints = << "users", "groups", "list" >>
  /\ run.out.kind = "json"

\* list_projects was called with an owner name
OwnerNamed ==
  /\ given.tool = "gitlab.list_projects"
  /\ OwnerGiven(Bind(given.tool, given.args).owner)

\* a search answered with a list, and the list
Succeeded(r) == r.net /\ r.status \in 200..299

Matches(r) == r.body.items

UserSearch == responses.users[1]

GroupSearch == responses.groups[1]

\* the URL of the project listing the call requested
ListingUrl == run.http[CHOOSE i \in ListRequests : TRUE].url

FetchedNonFile ==
  /\ given.tool = "github.get_file"
  /\ Done
  /\ ContentFetches > 0
  /\ LastContentResponse.net
  /\ LastContentResponse.status = 200
  /\ ~(/\ LastContentResponse.body.shape = "dict"
       /\ "type" \in DOMAIN LastContentResponse.body
       /\ LastContentResponse.body.type = "file")

IsTypeMismatchEnvelope ==
  /\ IsEnvelope
  /\ HasKey(run.out.val, "error")
  /\ Get(run.out.val, "error")[1] = "is not a file"

(***************************************************************************)
(* C17.  In GitHub get_file, when the content fetch (the first or the      *)
(* retried one) returns 200 with a node that is not a file, a directory    *)
(* included, the call returns the type-mismatch envelope, without content; *)
(* gitlab_get_file never returns that envelope.                            *)
(***************************************************************************)
C17_TypeMismatchEnvelope ==
  /\ FetchedNonFile =>
       /\ IsTypeMismatchEnvelope
       /\ ~HasKey(run.out.val, "content")
  /\ (FileCall /\ given.tool # "github.get_file") => ~IsTypeMismatchEnvelope

MetadataResponse == responses.metadata[1]

\* the default branch the metadata lookup resolved, written out
ResolvedDefaultBranch ==
  IF "default_branch" \in DOMAIN MetadataResponse.body
  THEN MetadataResponse.body.default_branch
  ELSE "master"

RetryMade == ContentFetches = 2

(***************************************************************************)
(* C18.  Once get_file / gitlab_get_file has started the fallback retry,   *)
(* the branch field of the envelope it returns, whichever it is, is the    *)
(* resolved default branch and not "main"; an envelope whose branch field  *)
(* is "main" comes from a call that made no retry.                         *)
(***************************************************************************)
C18_BranchAfterRetry ==
  (FileCall /\ Done /\ IsEnvelope) =>
    /\ RetryMade =>
         /\ Get(run.out.val, "branch") = ResolvedDefaultBranch
         /\ Get(run.out.val, "branch") # "main"
    /\ Get(run.out.val, "branch") = "main" => ~RetryMade

\* the retry on the default branch "dev" ended in a transport failure
C18_Witness ==
  /\ FileCall
  /\ Done
  /\ RetryMade
  /\ ~LastContentResponse.net
  /\ IsEnvelope
  /\ Get(run.out.val, "error")[1] = "Error fetching file"
  /\ Get(run.out.val, "branch") = "dev"

\* the first content fetch got a 404 on "main" and the metadata lookup a 200
MetadataFetched ==
  /\ FileCall
  /\ Done
  /\ RequestedBranch = "main"
  /\ FirstFetch404
  /\ MetadataResponse.net
  /\ MetadataResponse.status = 200

(***************************************************************************)
(* C19.  After a 404 on "main" and a metadata lookup answered with 200:    *)
(* if the metadata declares no default branch the content is fetched again *)
(* on "master"; if it declares the default branch "main" no retry is made  *)
(* and the not-found envelope for "main" is returned after exactly two     *)
(* HTTP requests.                                                          *)
(***************************************************************************)
C19_UndeclaredAndMainDefault ==
  MetadataFetched =>
    /\ "default_branch" \notin DOMAIN MetadataResponse.body =>
         /\ ContentFetches = 2
         /\ FetchedBranch(2) = "master"
         /\ Len(run.http) = 3
    /\ ("default_branch" \in DOMAIN MetadataResponse.body
          /\ MetadataResponse.body.default_branch = "main") =>
         /\ ContentFetches = 1
         /\ Len(run.http) = 2
         /\ IsNotFoundEnvelope
         /\ Get(run.out.val, "branch") = "main"

\* no default branch declared: the file is read from "master"
C19_Witness ==
  /\ MetadataFetched
  /\ "default_branch" \notin DOMAIN MetadataResponse.body
  /\ FetchedBranch(2) = "master"
  /\ IsTextFile(LastContentResponse)
  /\ Get(run.out.val, "branch") = "master"
  /\ HasKey(run.out.val, "content")

====
